---------------------------- MODULE Spec2Model ----------------------------
(***************************************************************************)
(* Portfolio valuation and performance analytics of script.js:             *)
(* analyzePortfolio (fetch stage, date alignment, forward fill, currency   *)
(* conversion, valuation, total return / CAGR / maximum drawdown, display, *)
(* composition snapshots), the same metrics on an arbitrary value series,  *)
(* and calcPortfolioMetrics, the range prober of the preset portfolios.    *)
(*                                                                         *)
(* Numbers.  Prices, quantities and FX rates are integers, so a valuation  *)
(* is an exact integer.  The results of JavaScript divisions are extended  *)
(* rationals: [k |-> "num", n, d] (reduced, d > 0), or the IEEE specials   *)
(* [k |-> "nan"], [k |-> "inf"], [k |-> "-inf"].  A k-th root that is not  *)
(* exact is kept symbolically as [k |-> "root", ...].                      *)
(*                                                                         *)
(* Dates.  ymd(t) renders the local calendar date of an epoch-seconds      *)
(* timestamp as a zero-padded "YYYY-MM-DD" key; the model keeps the day    *)
(* number (UTC), whose numeric order is the lexicographic order of the     *)
(* keys for four-digit years.                                              *)
(***************************************************************************)
EXTENDS Integers, Sequences, FiniteSets, TLC

VARIABLES
    pc,               \* position of the analyzePortfolio call
    items,            \* Object.values(portfolio): <<[symbol, quantity]>>
    range,            \* the range argument
    exchangeDataRaw,  \* result of fetchHistory('KRW=X', range), or Pending
    stockResultsRaw,  \* per item: result of fetchHistory(item.symbol), or Pending
    dateToExchange,   \* Map date -> close of the FX series
    dateToStocks,     \* per item: Map date -> close
    sortedDates,      \* the unified axis
    di,               \* number of axis dates the valuation loop has processed
    lastExchange,     \* forward-fill state of the FX rate
    lastPrices,       \* forward-fill state per item
    portfolioValues,  \* the valuation series
    chartLabels,      \* the labels pushed with the values
    stats,            \* [totalReturn, cagr, maxDrawdown] as computed
    display,          \* the DOM: stat texts, visibility of the stats block
    alerted,          \* the alert() shown, or NoAlert
    mddVals,          \* drawdown loop: the series iterated
    mddIdx,           \* drawdown loop: number of values consumed
    peak,             \* drawdown loop: running peak
    maxDrawdown,      \* drawdown loop: most negative drawdown so far
    startValues,      \* composition snapshot at the start: one value per item
    endValues,        \* composition snapshot at the end: one value per item
    calcPc,           \* position of the calcPortfolioMetrics call
    calcItems,        \* its items argument: <<[symbol, weight]>>
    rangeIdx,         \* index into ranges of the range being tried
    results,          \* per item: result of fetchHistory(item.symbol, range), or Pending
    fetchLog,         \* the ranges for which fetches were issued, in order
    processedData,    \* per item: [times, closes] cut to the latest common start
    calcValues,       \* the synthetic value series (portfolioValues of the prober)
    metrics,          \* the record calcPortfolioMetrics resolved to, or NoMetrics
    apiCache,         \* Map cacheKey -> promise (index into promises; 0: no entry)
    promises,         \* the fetchPromise of every fetchYahooData attempt: [key, proxy, st]
    requests,         \* per cacheKey: number of network requests issued
    callLog,          \* every fetchYahooData call: [key, promise, fresh]
    calls,            \* the analyzePortfolio calls in progress or finished: [range, pc]
    shown,            \* what the analysis panel shows: the range each part was computed for
    portfolio,        \* the in-memory portfolio: symbol -> holding
    stored,           \* localStorage 'myPortfolio': the serialised portfolio, if present
    lastEdit,         \* the last portfolio operation invoked: [op, symbol, value, n]
    copyPc,           \* copyPortfolio: [st, i, exchangeRate], the item awaited and the rate
    syncPc,           \* syncDataFromDrive: "idle", "init", "get" or "set"
    recommendationsRendered,  \* a rendering pass has succeeded
    isRecommendLoading,       \* a rendering pass is running
    passes,           \* renderRecommendations calls: [st, cards], the state and cards appended
    grid,             \* recommendation-grid: number of cards, and the loading notice
    accessToken,      \* the OAuth token, or Null
    saveTimeout,      \* the id saveToDrive keeps of its last timer, or 0
    timers,           \* ids of the save timers pending
    timerCount,       \* number of timers created
    saveCalls,        \* number of saveToDrive calls
    dbSetLog          \* the dbSet calls issued: [by, timer, body]

vars == <<pc, items, range, exchangeDataRaw, stockResultsRaw, dateToExchange,
          dateToStocks, sortedDates, di, lastExchange, lastPrices,
          portfolioValues, chartLabels, stats, display, alerted,
          mddVals, mddIdx, peak, maxDrawdown, startValues, endValues,
          calcPc, calcItems, rangeIdx, results, fetchLog, processedData,
          calcValues, metrics, apiCache, promises, requests, callLog, calls, shown,
          portfolio, stored, lastEdit, copyPc, syncPc, recommendationsRendered,
          isRecommendLoading, passes, grid, accessToken, saveTimeout, timers,
          timerCount, saveCalls, dbSetLog>>

\* the state of fetchYahooData
fetchVars == <<apiCache, promises, requests, callLog>>

\* concurrent analyzePortfolio calls and the panel they write
raceVars == <<calls, shown>>

\* the portfolio and its persisted copy
editVars == <<portfolio, stored, lastEdit, copyPc, syncPc>>

\* the state of renderRecommendations
recVars == <<recommendationsRendered, isRecommendLoading, passes, grid>>

\* the state of saveToDrive
saveVars == <<accessToken, saveTimeout, timers, timerCount, saveCalls, dbSetLog>>

\* everything outside the analytics functions
appVars == <<fetchVars, raceVars, editVars, recVars, saveVars>>

\* the state of calcPortfolioMetrics
calcVars == <<calcPc, calcItems, rangeIdx, results, fetchLog, processedData,
              calcValues, metrics>>

---------------------------------------------------------------------------
(* Bounds of the model *)

\* longest fetched series (number of (timestamp, close) observations)
MaxLen == 2

\* longest value series fed to the drawdown loop on its own
MaxVals == 3

---------------------------------------------------------------------------
(* JavaScript values *)

\* a close is <<>> (JavaScript null) or <<p>> (the number p)
Null == <<>>

NoAlert == "none"

SecsPerDay == 86400

\* the fallback FX rate of `close[0] || 1200`
DefaultExchange == 1200

Abs(a) == IF a < 0 THEN -a ELSE a

RECURSIVE Gcd(_, _)
Gcd(a, b) == IF b = 0 THEN a ELSE Gcd(b, a % b)

NaN == [k |-> "nan"]

PosInf == [k |-> "inf"]

NegInf == [k |-> "-inf"]

\* the reduced fraction a/b, b # 0
Frac(a, b) ==
    LET g == Gcd(Abs(a), Abs(b))
        s == IF b < 0 THEN -1 ELSE 1
    IN  [k |-> "num", n |-> (s * a) \div g, d |-> (s * b) \div g]

Num(a) == [k |-> "num", n |-> a, d |-> 1]

IsNum(x) == x.k = "num"

\* arr[i] (1-based here) as a number: undefined, hence NaN in arithmetic, outside the array
ValueAt(arr, i) == IF i \in DOMAIN arr THEN Num(arr[i]) ELSE NaN

\* x / y of IEEE doubles (signed zero not tracked)
Div(x, y) ==
    IF x.k = "nan" \/ y.k = "nan" THEN NaN
    ELSE IF ~IsNum(x) /\ ~IsNum(y) THEN NaN
    ELSE IF ~IsNum(x) THEN
        IF (y.n >= 0) = (x.k = "inf") THEN PosInf ELSE NegInf
    ELSE IF ~IsNum(y) THEN Num(0)
    ELSE IF y.n = 0 THEN
        IF x.n = 0 THEN NaN ELSE IF x.n > 0 THEN PosInf ELSE NegInf
    ELSE Frac(x.n * y.d, x.d * y.n)

\* x - y
Sub(x, y) ==
    IF x.k = "nan" \/ y.k = "nan" THEN NaN
    ELSE IF ~IsNum(x) /\ ~IsNum(y) THEN (IF x.k = y.k THEN NaN ELSE x)
    ELSE IF ~IsNum(x) THEN x
    ELSE IF ~IsNum(y) THEN (IF y.k = "inf" THEN NegInf ELSE PosInf)
    ELSE Frac(x.n * y.d - y.n * x.d, x.d * y.d)

\* x * c for an integer c > 0
Scale(x, c) == IF IsNum(x) THEN Frac(x.n * c, x.d) ELSE x

\* x < y: false whenever an operand is NaN
Lt(x, y) ==
    IF x.k = "nan" \/ y.k = "nan" THEN FALSE
    ELSE IF x.k = y.k /\ ~IsNum(x) THEN FALSE
    ELSE IF x.k = "-inf" \/ y.k = "inf" THEN TRUE
    ELSE IF x.k = "inf" \/ y.k = "-inf" THEN FALSE
    ELSE x.n * y.d < y.n * x.d

\* x > y
Gt(x, y) == Lt(y, x)

\* x <= y as a mathematical statement about two non-NaN values
Le(x, y) == x.k # "nan" /\ y.k # "nan" /\ ~Lt(y, x)

---------------------------------------------------------------------------
(* Fetched data: what fetchHistory can resolve to *)

\* fetchYahooData resolved to null: every proxy failed
FetchFailed == [st |-> "null", hasTs |-> FALSE, timestamp |-> <<>>, close |-> <<>>]

\* chart.result[0] without a timestamp array (no data in the range)
NoTimestamp == [st |-> "ok", hasTs |-> FALSE, timestamp |-> <<>>, close |-> <<>>]

\* the promise has not resolved yet
Pending == [st |-> "pending", hasTs |-> FALSE, timestamp |-> <<>>, close |-> <<>>]

Series(ts, cl) == [st |-> "ok", hasTs |-> TRUE, timestamp |-> ts, close |-> cl]

RECURSIVE SortedSeq(_)
\* the elements of a finite set of integers in ascending order
SortedSeq(S) ==
    IF S = {} THEN <<>>
    ELSE LET m == CHOOSE x \in S : \A y \in S : x <= y
         IN  <<m>> \o SortedSeq(S \ {m})

\* every series over a trading calendar: ascending timestamps, parallel closes
SeriesOver(times, closes) ==
    UNION { { Series(SortedSeq(T), cl) : cl \in [1..Cardinality(T) -> closes] } :
            T \in { X \in SUBSET times : Cardinality(X) <= MaxLen } }

HalfDay == SecsPerDay \div 2

\* trading calendars (epoch seconds): two quotes on one day are possible
FxTimes == {SecsPerDay, SecsPerDay + HalfDay, 2 * SecsPerDay}

UsTimes == {0, HalfDay, 2 * SecsPerDay}

KrxTimes == {0, 2 * SecsPerDay}

FxCloses == {Null, <<0>>, <<3>>}

UsCloses == {Null, <<1>>, <<2>>}

KrxCloses == {<<5>>}

FxResults == {FetchFailed, NoTimestamp} \cup SeriesOver(FxTimes, FxCloses)

UsResults == {FetchFailed, NoTimestamp} \cup SeriesOver(UsTimes, UsCloses)

KrxResults == {FetchFailed} \cup SeriesOver(KrxTimes, KrxCloses)

---------------------------------------------------------------------------
(* Holdings *)

SymAAPL == <<"A", "A", "P", "L">>

SymXKS == <<"X", "K", "S">>

SymSamsung == <<"0", "0", "5", "9", "3", "0", ".", "K", "S">>

SymKakao == <<"0", "3", "5", "7", "2", "0", ".", "K", "Q">>

Portfolios ==
    { <<>>,
      << [symbol |-> SymAAPL, quantity |-> 2], [symbol |-> SymSamsung, quantity |-> 1] >>,
      << [symbol |-> SymKakao, quantity |-> 3], [symbol |-> SymXKS, quantity |-> 1] >> }

Ranges == {"5y", "1y"}

\* String.prototype.endsWith
endsWith(s, suffix) ==
    /\ Len(s) >= Len(suffix)
    /\ SubSeq(s, Len(s) - Len(suffix) + 1, Len(s)) = suffix

\* a mutation of isKRW: the dot of the suffix is not required
isKRWNoDot(symbol) == endsWith(symbol, <<"K", "S">>) \/ endsWith(symbol, <<"K", "Q">>)

\* const isKRW = item.symbol.endsWith('.KS') || item.symbol.endsWith('.KQ')
isKRW(symbol) == endsWith(symbol, <<".", "K", "S">>) \/ endsWith(symbol, <<".", "K", "Q">>)

\* the suffix convention: the symbol's last three characters are ".KS" or ".KQ"
Domestic(symbol) ==
    /\ Len(symbol) >= 3
    /\ symbol[Len(symbol) - 2] = "."
    /\ symbol[Len(symbol) - 1] = "K"
    /\ symbol[Len(symbol)] \in {"S", "Q"}

\* what the market data source can return for a symbol: Korean listings trade
\* on the KRX calendar, all others on the US calendar
ResultsFor(symbol) == IF Domestic(symbol) THEN KrxResults ELSE UsResults

---------------------------------------------------------------------------
(* Alignment: date keys, per-series date maps, the unified axis *)

\* the calendar date of an epoch-seconds timestamp
ymd(t) == t \div SecsPerDay

EmptyMap == [x \in {} |-> Null]

\* Map.prototype.set: a later set of the same key replaces the value
MapSet(map, key, v) == [x \in (DOMAIN map) \cup {key} |-> IF x = key THEN v ELSE map[x]]

RECURSIVE FillMap(_, _, _)
\* res.timestamp.forEach((t, i) => map.set(ymd(t), close[i])), from index i on
FillMap(map, res, i) ==
    IF i > Len(res.timestamp) THEN map
    ELSE FillMap(MapSet(map, ymd(res.timestamp[i]), res.close[i]), res, i + 1)

\* dateToExchange after the forEach over the FX series
ExchangeMap(fx) == FillMap(EmptyMap, fx, 1)

\* one entry of dateToStocks: an empty Map for a null result
StockMap(res) == IF res.st = "null" THEN EmptyMap ELSE FillMap(EmptyMap, res, 1)

\* the dates a result adds to allDatesSet
DatesOf(res) == { ymd(res.timestamp[i]) : i \in 1..Len(res.timestamp) }

\* a mutation of AllDatesSet: the FX dates are left out of the union
AllDatesSetNoFx(fx, stocks) ==
    UNION { DatesOf(stocks[i]) : i \in { j \in DOMAIN stocks : stocks[j].st # "null" } }

\* allDatesSet: the FX dates and the dates of every non-null stock result
AllDatesSet(fx, stocks) ==
    DatesOf(fx) \cup UNION { DatesOf(stocks[i]) : i \in { j \in DOMAIN stocks : stocks[j].st # "null" } }

\* Array.from(allDatesSet).sort()
SortedDatesOf(fx, stocks) == SortedSeq(AllDatesSet(fx, stocks))

\* reading .timestamp.forEach / spreading .timestamp of a result that has none
\* raises a TypeError: the FX result (spread), a non-null stock result (forEach)
ProcessThrows(fx, stocks) ==
    \/ ~fx.hasTs
    \/ \E i \in DOMAIN stocks : stocks[i].st = "ok" /\ ~stocks[i].hasTs

---------------------------------------------------------------------------
(* Forward fill, currency conversion, valuation *)

\* let lastExchange = close[0] || 1200: undefined, null and 0 are falsy
InitialExchange(fx) ==
    IF Len(fx.close) = 0 \/ fx.close[1] = Null \/ fx.close[1][1] = 0
    THEN DefaultExchange
    ELSE fx.close[1][1]

\* a mutation of ForwardFill: a date without a valid entry yields the marker -1
ForwardFillOrMarker(map, date, last) ==
    IF date \in DOMAIN map /\ map[date] # Null THEN map[date][1] ELSE -1

\* if (map.has(date) && map.get(date) !== null) last = map.get(date)
ForwardFill(map, date, last) ==
    IF date \in DOMAIN map /\ map[date] # Null THEN map[date][1] ELSE last

\* a mutation of valueInKRW: every holding is converted with the FX rate
valueInKRWAlwaysConverted(item, price, exchange) == price * item.quantity * exchange

\* the value of one holding in KRW
valueInKRW(item, price, exchange) ==
    IF isKRW(item.symbol)
    THEN price * item.quantity
    ELSE price * item.quantity * exchange

RECURSIVE dailyTotal(_, _, _, _)
\* items.forEach: the sum of the first n holdings' values
dailyTotal(its, prices, exchange, n) ==
    IF n = 0 THEN 0
    ELSE dailyTotal(its, prices, exchange, n - 1) + valueInKRW(its[n], prices[n], exchange)

\* ToNumber of a map entry in a product: null counts as 0
toNumber(v) == IF v = Null THEN 0 ELSE v[1]

\* a mutation of startValueOf: the value is left in the quote currency
startValueOfUnconverted(item, priceMap, exchangeMap, dates) ==
    IF Len(dates) > 0 /\ dates[1] \in DOMAIN priceMap
    THEN toNumber(priceMap[dates[1]]) * item.quantity
    ELSE 0

\* one entry of startValues: the entry of the first axis date times the quantity,
\* times the FX entry of that date (1200 without one) for a foreign holding; the
\* price the search loop of lines 1570-1575 finds is not used
startValueOf(item, priceMap, exchangeMap, dates) ==
    LET hasFirst == Len(dates) > 0
        initialExchange ==
            IF hasFirst /\ dates[1] \in DOMAIN exchangeMap
            THEN exchangeMap[dates[1]]
            ELSE <<DefaultExchange>>
    IN  IF hasFirst /\ dates[1] \in DOMAIN priceMap
        THEN IF isKRW(item.symbol)
             THEN toNumber(priceMap[dates[1]]) * item.quantity
             ELSE toNumber(priceMap[dates[1]]) * item.quantity * toNumber(initialExchange)
        ELSE 0

\* one entry of endValues: the last forward-filled price, if positive
endValueOf(item, price, exchange) ==
    IF price > 0
    THEN IF isKRW(item.symbol)
         THEN price * item.quantity
         ELSE price * item.quantity * exchange
    ELSE 0

---------------------------------------------------------------------------
(* Performance metrics *)

\* a mutation of totalReturnOf: the ratio of the values, the initial one not subtracted
totalReturnOfRatio(initialValue, finalValue) ==
    Scale(Div(finalValue, initialValue), 100)

\* ((finalValue - initialValue) / initialValue) * 100
totalReturnOf(initialValue, finalValue) ==
    Scale(Div(Sub(finalValue, initialValue), initialValue), 100)

rangeMap ==
    [r \in {"10y", "7y", "5y", "3y", "1y", "6mo"} |->
        CASE r = "10y" -> Num(10)
          [] r = "7y"  -> Num(7)
          [] r = "5y"  -> Num(5)
          [] r = "3y"  -> Num(3)
          [] r = "1y"  -> Num(1)
          [] r = "6mo" -> Frac(1, 2)]

\* const years = rangeMap[range] || 5
yearsOf(r) == IF r \in DOMAIN rangeMap THEN rangeMap[r] ELSE Num(5)

\* (Math.pow(q, 1 / years) - 1) * 100 for a finite q > 0: exact when q = 1
\* (pow(1, x) = 1) and when years = 1, symbolic otherwise
powPct(q, years) ==
    IF q = Num(1) THEN Num(0)
    ELSE IF years = Num(1) THEN Scale(Sub(q, Num(1)), 100)
    ELSE [k |-> "root", q |-> q, years |-> years]

\* a mutation of cagrOf: the guard tests the final value only
cagrOfFinalOnly(initialValue, finalValue, years) ==
    IF Gt(finalValue, Num(0))
    THEN powPct(Div(finalValue, initialValue), years)
    ELSE Num(0)

\* let cagr = 0; if (initialValue > 0 && finalValue > 0) cagr = ...
cagrOf(initialValue, finalValue, years) ==
    IF Gt(initialValue, Num(0)) /\ Gt(finalValue, Num(0))
    THEN powPct(Div(finalValue, initialValue), years)
    ELSE Num(0)

\* let peak = -Infinity; let maxDrawdown = 0
MddStart == [peak |-> NegInf, maxDrawdown |-> Num(0)]

\* a mutation of MddStep: the decline is divided by the value, not by the peak
MddStepByValue(acc, val) ==
    LET p  == IF Gt(Num(val), acc.peak) THEN Num(val) ELSE acc.peak
        dd == Div(Sub(Num(val), p), Num(val))
    IN  [peak |-> p,
         maxDrawdown |-> IF Lt(dd, acc.maxDrawdown) THEN dd ELSE acc.maxDrawdown]

\* a mutation of MddStep: the latest decline is kept, not the deepest
MddStepKeepLast(acc, val) ==
    LET p  == IF Gt(Num(val), acc.peak) THEN Num(val) ELSE acc.peak
    IN  [peak |-> p, maxDrawdown |-> Div(Sub(Num(val), p), p)]

\* one iteration of the running-peak loop
MddStep(acc, val) ==
    LET p  == IF Gt(Num(val), acc.peak) THEN Num(val) ELSE acc.peak
        dd == Div(Sub(Num(val), p), p)
    IN  [peak |-> p,
         maxDrawdown |-> IF Lt(dd, acc.maxDrawdown) THEN dd ELSE acc.maxDrawdown]

RECURSIVE MddFold(_, _, _)
\* portfolioValues.forEach(...) from index i on
MddFold(acc, vals, i) ==
    IF i > Len(vals) THEN acc ELSE MddFold(MddStep(acc, vals[i]), vals, i + 1)

maxDrawdownOf(vals) == MddFold(MddStart, vals, 1).maxDrawdown

\* Number.prototype.toFixed(2): hundredths, rounded half away from zero;
\* "NaN" and "Infinity" print as such; an inexact root prints some finite decimal
toFixed2(x) ==
    IF x.k = "num" THEN
        LET a == Abs(x.n) * 100
            r == (2 * a + x.d) \div (2 * x.d)
        IN  [k |-> "num", cents |-> IF x.n < 0 THEN -r ELSE r]
    ELSE IF x.k = "root" THEN [k |-> "decimal", of |-> x]
    ELSE IF x.k = "nan" THEN [k |-> "NaN"]
    ELSE IF x.k = "inf" THEN [k |-> "Infinity"]
    ELSE [k |-> "-Infinity"]

NoText == [k |-> "empty"]

NoStats == [totalReturn |-> NaN, cagr |-> NaN, maxDrawdown |-> NaN]

\* calcPortfolioMetrics has not resolved
NoMetrics == [range |-> "none", return |-> NoText, mdd |-> NoText]

\* the cache keys fetchYahooData is called with: `${symbol}-${range}-${interval}`
CacheKeys == {"AAPL-5y-1wk", "KRW=X-5y-1wk"}

\* the analysis panel before any analysis rendered: each part hidden
NothingShown == [stats |-> "hidden", composition |-> "hidden", chart |-> "none",
                 container |-> FALSE, loading |-> FALSE, loadingCount |-> 0]

\* no portfolio operation invoked yet
NoEdit == [op |-> "none", symbol |-> "", value |-> "", n |-> 0]

\* let portfolio = {}
EmptyPortfolio == [s \in {} |-> 0]

\* localStorage has no 'myPortfolio' item
NotStored == [present |-> FALSE, json |-> EmptyPortfolio]

\* copyPortfolio is not running
CopyIdle == [st |-> "idle", i |-> 0, exchangeRate |-> Num(0)]

\* recommendation-grid as the page loads it
EmptyGrid == [cards |-> 0, tempLoading |-> 0]

\* fetchYahooData never called
FetchIdle ==
    /\ apiCache = [k \in CacheKeys |-> 0]
    /\ promises = <<>>
    /\ requests = [k \in CacheKeys |-> 0]
    /\ callLog = <<>>

\* analyzePortfolio never called
RaceIdle ==
    /\ calls = <<>>
    /\ shown = NothingShown

\* an empty portfolio, nothing saved
EditIdle ==
    /\ portfolio = EmptyPortfolio
    /\ stored = NotStored
    /\ lastEdit = NoEdit
    /\ copyPc = CopyIdle
    /\ syncPc = "idle"

\* renderRecommendations never called
RecIdle ==
    /\ recommendationsRendered = FALSE
    /\ isRecommendLoading = FALSE
    /\ passes = <<>>
    /\ grid = EmptyGrid

\* not logged in, no save timer
SaveIdle ==
    /\ accessToken = Null
    /\ saveTimeout = 0
    /\ timers = {}
    /\ timerCount = 0
    /\ saveCalls = 0
    /\ dbSetLog = <<>>

\* the page outside the analytics functions, as loaded
AppIdle == FetchIdle /\ RaceIdle /\ EditIdle /\ RecIdle /\ SaveIdle

---------------------------------------------------------------------------
(* analyzePortfolio(range) *)

Init ==
    /\ pc = "call"
    /\ items \in Portfolios
    /\ range \in Ranges
    /\ exchangeDataRaw = Pending
    /\ stockResultsRaw = <<>>
    /\ dateToExchange = EmptyMap
    /\ dateToStocks = <<>>
    /\ sortedDates = <<>>
    /\ di = 0
    /\ lastExchange = 0
    /\ lastPrices = <<>>
    /\ portfolioValues = <<>>
    /\ chartLabels = <<>>
    /\ stats = NoStats
    /\ display \in { [statsVisible |-> v, loading |-> FALSE, statReturn |-> NoText,
                      statCagr |-> NoText, statMdd |-> NoText] : v \in BOOLEAN }
    /\ alerted = NoAlert
    /\ mddVals = <<>>
    /\ mddIdx = 0
    /\ peak = NegInf
    /\ maxDrawdown = Num(0)
    /\ startValues = <<>>
    /\ endValues = <<>>
    /\ calcPc = "idle"
    /\ calcItems = <<>>
    /\ rangeIdx = 1
    /\ results = <<>>
    /\ fetchLog = <<>>
    /\ processedData = <<>>
    /\ calcValues = <<>>
    /\ metrics = NoMetrics
    /\ AppIdle

mddVars == <<mddVals, mddIdx, peak, maxDrawdown>>

dataVars == <<dateToExchange, dateToStocks, sortedDates, di, lastExchange, lastPrices,
              portfolioValues, chartLabels, stats, startValues, endValues>>

\* entry: an empty portfolio alerts and returns; otherwise the loading state is
\* shown, the stats block hidden and the FX fetch started
Enter ==
    /\ pc = "call"
    /\ IF Len(items) = 0
       THEN /\ alerted' = "empty"
            /\ pc' = "returned"
            /\ UNCHANGED display
       ELSE /\ display' = [display EXCEPT !.statsVisible = FALSE, !.loading = TRUE]
            /\ pc' = "awaitFX"
            /\ UNCHANGED alerted
    /\ UNCHANGED <<appVars, calcVars, items, range, exchangeDataRaw, stockResultsRaw, dataVars, mddVars>>

\* await fetchHistory('KRW=X', range) resolves; a null result throws, otherwise
\* one fetch per holding is started
ExchangeFetched ==
    /\ pc = "awaitFX"
    /\ \E res \in FxResults :
        /\ exchangeDataRaw' = res
        /\ IF res.st = "null"
           THEN /\ pc' = "catch"
                /\ UNCHANGED stockResultsRaw
           ELSE /\ pc' = "awaitStocks"
                /\ stockResultsRaw' = [i \in 1..Len(items) |-> Pending]
    /\ UNCHANGED <<appVars, calcVars, items, range, dataVars, display, alerted, mddVars>>

\* the fetch of one holding resolves, in any order
StockFetched(i) ==
    /\ pc = "awaitStocks"
    /\ stockResultsRaw[i] = Pending
    /\ \E res \in ResultsFor(items[i].symbol) :
        stockResultsRaw' = [stockResultsRaw EXCEPT ![i] = res]
    /\ UNCHANGED <<appVars, calcVars, pc, items, range, exchangeDataRaw, dataVars, display, alerted, mddVars>>

\* a mutation of Process: the holdings' fetches are not awaited together, the
\* maps and the axis are built as soon as the mapping has been started
ProcessWithoutAwaitingAll ==
    /\ pc = "awaitStocks"
    /\ IF ProcessThrows(exchangeDataRaw, stockResultsRaw)
       THEN /\ pc' = "catch"
            /\ UNCHANGED dataVars
       ELSE /\ pc' = "valuate"
            /\ dateToExchange' = ExchangeMap(exchangeDataRaw)
            /\ dateToStocks' = [i \in DOMAIN stockResultsRaw |-> StockMap(stockResultsRaw[i])]
            /\ sortedDates' = SortedDatesOf(exchangeDataRaw, stockResultsRaw)
            /\ lastExchange' = InitialExchange(exchangeDataRaw)
            /\ lastPrices' = [i \in DOMAIN items |-> 0]
            /\ di' = 0
            /\ UNCHANGED <<portfolioValues, chartLabels, stats, startValues, endValues>>
    /\ UNCHANGED <<appVars, calcVars, items, range, exchangeDataRaw, stockResultsRaw, display, alerted, mddVars>>

\* Promise.all resolved: the date maps and the axis are built and the forward-fill
\* state initialised, or a result without timestamps raises
Process ==
    /\ pc = "awaitStocks"
    /\ \A i \in DOMAIN stockResultsRaw : stockResultsRaw[i] # Pending
    /\ IF ProcessThrows(exchangeDataRaw, stockResultsRaw)
       THEN /\ pc' = "catch"
            /\ UNCHANGED dataVars
       ELSE /\ pc' = "valuate"
            /\ dateToExchange' = ExchangeMap(exchangeDataRaw)
            /\ dateToStocks' = [i \in DOMAIN stockResultsRaw |-> StockMap(stockResultsRaw[i])]
            /\ sortedDates' = SortedDatesOf(exchangeDataRaw, stockResultsRaw)
            /\ lastExchange' = InitialExchange(exchangeDataRaw)
            /\ lastPrices' = [i \in DOMAIN items |-> 0]
            /\ di' = 0
            /\ UNCHANGED <<portfolioValues, chartLabels, stats, startValues, endValues>>
    /\ UNCHANGED <<appVars, calcVars, items, range, exchangeDataRaw, stockResultsRaw, display, alerted, mddVars>>

\* a mutation of ValuationStep: a date on which the portfolio is worth nothing
\* gets a label but no value
ValuationStepSkipsZero ==
    /\ pc = "valuate"
    /\ di < Len(sortedDates)
    /\ LET date == sortedDates[di + 1]
           ex   == ForwardFill(dateToExchange, date, lastExchange)
           lp   == [i \in DOMAIN items |-> ForwardFill(dateToStocks[i], date, lastPrices[i])]
           tot  == dailyTotal(items, lp, ex, Len(items))
       IN  /\ lastExchange' = ex
           /\ lastPrices' = lp
           /\ portfolioValues' = IF tot = 0 THEN portfolioValues ELSE Append(portfolioValues, tot)
           /\ chartLabels' = Append(chartLabels, date)
    /\ di' = di + 1
    /\ UNCHANGED <<appVars, calcVars, pc, items, range, exchangeDataRaw, stockResultsRaw, dateToExchange,
                   dateToStocks, sortedDates, stats, display, alerted, mddVars,
                   startValues, endValues>>

\* one iteration of sortedDates.forEach
ValuationStep ==
    /\ pc = "valuate"
    /\ di < Len(sortedDates)
    /\ LET date == sortedDates[di + 1]
           ex   == ForwardFill(dateToExchange, date, lastExchange)
           lp   == [i \in DOMAIN items |-> ForwardFill(dateToStocks[i], date, lastPrices[i])]
       IN  /\ lastExchange' = ex
           /\ lastPrices' = lp
           /\ portfolioValues' = Append(portfolioValues, dailyTotal(items, lp, ex, Len(items)))
           /\ chartLabels' = Append(chartLabels, date)
    /\ di' = di + 1
    /\ UNCHANGED <<appVars, calcVars, pc, items, range, exchangeDataRaw, stockResultsRaw, dateToExchange,
                   dateToStocks, sortedDates, stats, display, alerted, mddVars,
                   startValues, endValues>>

\* the metrics, the stats display and the two composition snapshots, after the
\* last axis date
Metrics ==
    /\ pc = "valuate"
    /\ di = Len(sortedDates)
    /\ LET initialValue == ValueAt(portfolioValues, 1)
           finalValue   == ValueAt(portfolioValues, Len(portfolioValues))
           st == [totalReturn |-> totalReturnOf(initialValue, finalValue),
                  cagr        |-> cagrOf(initialValue, finalValue, yearsOf(range)),
                  maxDrawdown |-> maxDrawdownOf(portfolioValues)]
       IN  /\ stats' = st
           /\ display' = [display EXCEPT !.statReturn = toFixed2(st.totalReturn),
                                         !.statCagr = toFixed2(st.cagr),
                                         !.statMdd = toFixed2(Scale(st.maxDrawdown, 100)),
                                         !.statsVisible = TRUE]
    /\ startValues' = [i \in DOMAIN items |->
                          startValueOf(items[i], dateToStocks[i], dateToExchange, sortedDates)]
    /\ endValues' = [i \in DOMAIN items |-> endValueOf(items[i], lastPrices[i], lastExchange)]
    /\ pc' = "finally"
    /\ UNCHANGED <<appVars, calcVars, items, range, exchangeDataRaw, stockResultsRaw, dateToExchange,
                   dateToStocks, sortedDates, di, lastExchange, lastPrices,
                   portfolioValues, chartLabels, alerted, mddVars>>

\* catch (error): the error alert
Catch ==
    /\ pc = "catch"
    /\ alerted' = "error"
    /\ pc' = "finally"
    /\ UNCHANGED <<appVars, calcVars, items, range, exchangeDataRaw, stockResultsRaw, dataVars, display, mddVars>>

\* finally: the loading indicator is hidden
Finally ==
    /\ pc = "finally"
    /\ display' = [display EXCEPT !.loading = FALSE]
    /\ pc' = "done"
    /\ UNCHANGED <<appVars, calcVars, items, range, exchangeDataRaw, stockResultsRaw, dataVars, alerted, mddVars>>

Next ==
    \/ Enter
    \/ ExchangeFetched
    \/ \E i \in DOMAIN stockResultsRaw : StockFetched(i)
    \/ Process
    \/ ValuationStep
    \/ Metrics
    \/ Catch
    \/ Finally

Spec == Init /\ [][Next]_vars

---------------------------------------------------------------------------
(* The metrics of lines 1490-1517 on an arbitrary value series and range *)

MddValues == (-2..3) \cup {50, 100}

\* the range buttons' keys, and one key the range map does not know
RangeKeys == {"10y", "7y", "5y", "3y", "1y", "6mo", "max"}

ValueSeries == UNION { [1..n -> MddValues] : n \in 0..MaxVals }

InitMdd ==
    /\ pc = "mdd"
    /\ mddVals \in ValueSeries
    /\ mddIdx = 0
    /\ peak = MddStart.peak
    /\ maxDrawdown = MddStart.maxDrawdown
    /\ items = <<>>
    /\ range \in RangeKeys
    /\ exchangeDataRaw = Pending
    /\ stockResultsRaw = <<>>
    /\ dateToExchange = EmptyMap
    /\ dateToStocks = <<>>
    /\ sortedDates = <<>>
    /\ di = 0
    /\ lastExchange = 0
    /\ lastPrices = <<>>
    /\ portfolioValues = <<>>
    /\ chartLabels = <<>>
    /\ stats = NoStats
    /\ display = [statsVisible |-> FALSE, loading |-> FALSE, statReturn |-> NoText,
                  statCagr |-> NoText, statMdd |-> NoText]
    /\ alerted = NoAlert
    /\ startValues = <<>>
    /\ endValues = <<>>
    /\ calcPc = "idle"
    /\ calcItems = <<>>
    /\ rangeIdx = 1
    /\ results = <<>>
    /\ fetchLog = <<>>
    /\ processedData = <<>>
    /\ calcValues = <<>>
    /\ metrics = NoMetrics
    /\ AppIdle

\* one iteration of values.forEach
MddLoopStep ==
    /\ pc = "mdd"
    /\ mddIdx < Len(mddVals)
    /\ LET acc == MddStep([peak |-> peak, maxDrawdown |-> maxDrawdown], mddVals[mddIdx + 1])
       IN  /\ peak' = acc.peak
           /\ maxDrawdown' = acc.maxDrawdown
    /\ mddIdx' = mddIdx + 1
    /\ UNCHANGED <<appVars, calcVars, pc, items, range, exchangeDataRaw, stockResultsRaw, dataVars, display,
                   alerted, mddVals>>

\* the loop has ended: total return, CAGR and (maxDrawdown * 100).toFixed(2) are
\* reported
MddLoopDone ==
    /\ pc = "mdd"
    /\ mddIdx = Len(mddVals)
    /\ pc' = "mddDone"
    /\ LET initialValue == ValueAt(mddVals, 1)
           finalValue   == ValueAt(mddVals, Len(mddVals))
           st == [totalReturn |-> totalReturnOf(initialValue, finalValue),
                  cagr        |-> cagrOf(initialValue, finalValue, yearsOf(range)),
                  maxDrawdown |-> maxDrawdown]
       IN  /\ stats' = st
           /\ display' = [display EXCEPT !.statReturn = toFixed2(st.totalReturn),
                                         !.statCagr = toFixed2(st.cagr),
                                         !.statMdd = toFixed2(Scale(st.maxDrawdown, 100)),
                                         !.statsVisible = TRUE]
    /\ UNCHANGED <<appVars, calcVars, items, range, exchangeDataRaw, stockResultsRaw, dateToExchange,
                   dateToStocks, sortedDates, di, lastExchange, lastPrices,
                   portfolioValues, chartLabels, alerted, mddVars, startValues, endValues>>

NextMdd == MddLoopStep \/ MddLoopDone

SpecMdd == InitMdd /\ [][NextMdd]_vars

---------------------------------------------------------------------------
(* calcPortfolioMetrics(items): the range prober of the preset portfolios *)

\* x + y
Add(x, y) ==
    IF x.k = "nan" \/ y.k = "nan" THEN NaN
    ELSE IF ~IsNum(x) /\ ~IsNum(y) THEN (IF x.k = y.k THEN x ELSE NaN)
    ELSE IF ~IsNum(x) THEN x
    ELSE IF ~IsNum(y) THEN y
    ELSE Frac(x.n * y.d + y.n * x.d, x.d * y.d)

\* x * y
Mul(x, y) ==
    IF x.k = "nan" \/ y.k = "nan" THEN NaN
    ELSE IF IsNum(x) /\ IsNum(y) THEN Frac(x.n * y.n, x.d * y.d)
    ELSE IF (IsNum(x) /\ x.n = 0) \/ (IsNum(y) /\ y.n = 0) THEN NaN
    ELSE LET neg(z) == z.k = "-inf" \/ (IsNum(z) /\ z.n < 0)
         IN  IF neg(x) = neg(y) THEN PosInf ELSE NegInf

\* a mutation of ranges: the shortest range is tried first
rangesAscending == <<"1y", "3y", "5y", "10y">>

\* const ranges = ['10y', '5y', '3y', '1y']
ranges == <<"10y", "5y", "3y", "1y">>

\* r.timestamp.length < 10
MinRawObservations == 10

\* minLen < 120
MinAlignedLength == 120

\* durationDays / 365.25, as a quotient of integers: 365.25 = 1461 / 4
DaysPerYearTimes4 == 1461

\* return { range: 'N/A', return: '0.00', mdd: '0.00' }
NotAvailable ==
    [range |-> "N/A", return |-> [k |-> "num", cents |-> 0], mdd |-> [k |-> "num", cents |-> 0]]

\* results.some(r => !r || !r.timestamp || r.timestamp.length < 10)
RawRejects(rs) ==
    \E i \in DOMAIN rs :
        rs[i].st = "null" \/ ~rs[i].hasTs \/ Len(rs[i].timestamp) < MinRawObservations

\* res.indicators.quote[0].close.slice(...) of a result without a close array
\* raises a TypeError
CalcThrows(rs) == \E i \in DOMAIN rs : rs[i].close = Null

\* let maxStartTime = 0; results.forEach(res => { if (res.timestamp[0] > maxStartTime) ... })
maxStartTimeOf(rs) ==
    LET firsts == { rs[i].timestamp[1] : i \in DOMAIN rs } \cup {0}
    IN  CHOOSE m \in firsts : \A x \in firsts : x <= m

\* res.timestamp.findIndex(t => t >= maxStartTime): 0-based, -1 when none
startIndexOf(ts, m) ==
    LET hits == { i \in DOMAIN ts : ts[i] >= m }
    IN  IF hits = {} THEN -1 ELSE (CHOOSE i \in hits : \A j \in hits : i <= j) - 1

\* Array.prototype.slice(k): from index k on, a negative k counted from the end
sliceFrom(arr, k) ==
    IF k >= 0 THEN SubSeq(arr, k + 1, Len(arr))
    ELSE SubSeq(arr, (IF Len(arr) + k < 0 THEN 0 ELSE Len(arr) + k) + 1, Len(arr))

\* processedData: every series cut to start at the latest first timestamp
processedDataOf(rs) ==
    [i \in DOMAIN rs |->
        LET startIndex == startIndexOf(rs[i].timestamp, maxStartTimeOf(rs))
        IN  [times  |-> sliceFrom(rs[i].timestamp, startIndex),
             closes |-> sliceFrom(rs[i].close, startIndex)]]

\* a mutation of minLenOf: the longest series decides
minLenOfLongest(pd) ==
    LET lens == { Len(pd[i].times) : i \in DOMAIN pd }
    IN  CHOOSE m \in lens : \A x \in lens : x <= m

\* Math.min(...processedData.map(d => d.times.length))
minLenOf(pd) ==
    LET lens == { Len(pd[i].times) : i \in DOMAIN pd }
    IN  CHOOSE m \in lens : \A x \in lens : m <= x

\* a close as an operand of a division: null counts as 0
priceOf(entry) == IF entry = Null THEN Num(0) ELSE Num(entry[1])

\* normPrices[idx][i]: p / startPrice with startPrice = d.closes[0]; a read past
\* the end of the closes is undefined
normPriceOf(d, i) ==
    IF i \in DOMAIN d.closes
    THEN Div(priceOf(d.closes[i]), priceOf(d.closes[1]))
    ELSE NaN

RECURSIVE weightedSum(_, _, _, _)
\* let val = 0; items.forEach((item, idx) => { val += item.weight * normPrices[idx][i] })
weightedSum(its, pd, i, n) ==
    IF n = 0 THEN Num(0)
    ELSE Add(weightedSum(its, pd, i, n - 1), Mul(its[n].weight, normPriceOf(pd[n], i)))

\* the synthetic series: one value per index below minLen
calcValuesOf(its, pd) ==
    [i \in 1..minLenOf(pd) |-> weightedSum(its, pd, i, Len(its))]

\* years = ((times[minLen - 1] - times[0]) / (3600 * 24)) / 365.25 of the first series
elapsedYears(pd) ==
    LET times == pd[1].times
    IN  Frac((times[minLenOf(pd)] - times[1]) * 4, SecsPerDay * DaysPerYearTimes4)

\* (Math.pow(endVal / startVal, 1 / years) - 1) * 100 for years > 0, unguarded
calcCagrOf(startVal, endVal, years) ==
    LET q == Div(endVal, startVal)
    IN  IF q.k = "nan" THEN NaN
        ELSE IF ~IsNum(q) THEN PosInf
        ELSE IF q.n < 0 THEN NaN
        ELSE IF q.n = 0 THEN Num(-100)
        ELSE powPct(q, years)

\* one iteration of the running-peak loop over the synthetic series
calcMddStep(acc, v) ==
    LET p  == IF Gt(v, acc.peak) THEN v ELSE acc.peak
        dd == Div(Sub(v, p), p)
    IN  [peak |-> p,
         maxDrawdown |-> IF Lt(dd, acc.maxDrawdown) THEN dd ELSE acc.maxDrawdown]

\* the record returned for a range whose data passed both checks, mdd being the
\* maxDrawdown the loop ended with
calcMetricsOf(pd, vals, mdd, r) ==
    LET cagr == calcCagrOf(vals[1], vals[Len(vals)], elapsedYears(pd))
    IN  [range |-> r, return |-> toFixed2(cagr), mdd |-> toFixed2(Scale(mdd, 100))]

\* the fetched data of the prober: daily calendars of n observations from a start day
calcDays(start, n) == [i \in 1..n |-> (start + i - 1) * SecsPerDay]

\* a calendar that misses one day: from position skip on, every date is a day later
calcDaysSkipping(start, n, skip) ==
    [i \in 1..n |-> (start + i - 1 + (IF i >= skip THEN 1 ELSE 0)) * SecsPerDay]

Steady(n) == [i \in 1..n |-> <<2>>]

Dip(n) == [i \in 1..n |-> IF i = 3 THEN <<1>> ELSE <<2>>]

Grow(n) == [i \in 1..n |-> IF i = n THEN <<3>> ELSE <<2>>]

NullFirst(n) == [i \in 1..n |-> IF i = 1 THEN Null ELSE <<2>>]

ZeroFirst(n) == [i \in 1..n |-> IF i = 1 THEN <<0>> ELSE <<2>>]

\* a result with timestamps whose indicators.quote[0] has no close array
NoQuote(ts) == [st |-> "ok", hasTs |-> TRUE, timestamp |-> ts, close |-> Null]

\* what fetchHistory can resolve to for an asset of a preset, at any range
CalcResults ==
    { FetchFailed,
      NoTimestamp,
      NoQuote(calcDays(0, MinAlignedLength)),
      Series(calcDays(0, MinRawObservations - 2), Steady(MinRawObservations - 2)),
      Series(calcDays(0, MinRawObservations), Steady(MinRawObservations)),
      Series(calcDays(0, MinAlignedLength - 1), Steady(MinAlignedLength - 1)),
      Series(calcDays(0, MinAlignedLength), Steady(MinAlignedLength)),
      Series(calcDays(0, MinAlignedLength), Dip(MinAlignedLength)),
      Series(calcDays(0, MinAlignedLength + 1), Grow(MinAlignedLength + 1)),
      Series(calcDays(1, MinAlignedLength), Grow(MinAlignedLength)),
      Series(calcDaysSkipping(0, MinAlignedLength + 1, 5), Dip(MinAlignedLength + 1)),
      Series(calcDays(500, MinRawObservations), Steady(MinRawObservations)),
      Series(calcDays(0, MinAlignedLength), NullFirst(MinAlignedLength)),
      Series(calcDays(0, MinAlignedLength), ZeroFirst(MinAlignedLength)) }

\* two of the presets: weights 0.70 / 0.30, and a single asset of weight 1.0
CalcPortfolios ==
    { << [symbol |-> "VTI", weight |-> Frac(7, 10)], [symbol |-> "VT", weight |-> Frac(3, 10)] >>,
      << [symbol |-> "USMV", weight |-> Num(1)] >> }

InitCalc ==
    /\ calcPc = "loop"
    /\ calcItems \in CalcPortfolios
    /\ rangeIdx = 1
    /\ results = <<>>
    /\ fetchLog = <<>>
    /\ processedData = <<>>
    /\ calcValues = <<>>
    /\ metrics = NoMetrics
    /\ AppIdle
    /\ pc = "idle"
    /\ items = <<>>
    /\ range = "5y"
    /\ exchangeDataRaw = Pending
    /\ stockResultsRaw = <<>>
    /\ dateToExchange = EmptyMap
    /\ dateToStocks = <<>>
    /\ sortedDates = <<>>
    /\ di = 0
    /\ lastExchange = 0
    /\ lastPrices = <<>>
    /\ portfolioValues = <<>>
    /\ chartLabels = <<>>
    /\ stats = NoStats
    /\ display = [statsVisible |-> FALSE, loading |-> FALSE, statReturn |-> NoText,
                  statCagr |-> NoText, statMdd |-> NoText]
    /\ alerted = NoAlert
    /\ mddVals = <<>>
    /\ mddIdx = 0
    /\ peak = NegInf
    /\ maxDrawdown = Num(0)
    /\ startValues = <<>>
    /\ endValues = <<>>

\* everything outside calcPortfolioMetrics
otherVars == <<pc, items, range, exchangeDataRaw, stockResultsRaw, dataVars, display,
               alerted, mddVals, appVars>>

\* the state of the prober's running-peak loop
calcMddVars == <<mddIdx, peak, maxDrawdown>>

\* the next range of the loop: one fetchHistory(item.symbol, range) per item
CalcFetch ==
    /\ calcPc = "loop"
    /\ rangeIdx <= Len(ranges)
    /\ results' = [i \in DOMAIN calcItems |-> Pending]
    /\ fetchLog' = Append(fetchLog, ranges[rangeIdx])
    /\ processedData' = <<>>
    /\ calcValues' = <<>>
    /\ calcPc' = "await"
    /\ UNCHANGED <<calcItems, rangeIdx, metrics, calcMddVars, otherVars>>

\* the fetch of one asset resolves, in any order
CalcFetched(i) ==
    /\ calcPc = "await"
    /\ results[i] = Pending
    /\ \E res \in CalcResults : results' = [results EXCEPT ![i] = res]
    /\ UNCHANGED <<calcPc, calcItems, rangeIdx, fetchLog, processedData, calcValues,
                   metrics, calcMddVars, otherVars>>

\* a mutation of CalcProcess: the series are cut with splice, which removes the
\* returned tail from the fetched arrays themselves
CalcProcessSplicing ==
    /\ calcPc = "await"
    /\ \A i \in DOMAIN results : results[i] # Pending
    /\ IF RawRejects(results) \/ CalcThrows(results)
       THEN /\ processedData' = <<>>
            /\ calcValues' = <<>>
            /\ rangeIdx' = rangeIdx + 1
            /\ calcPc' = "loop"
            /\ UNCHANGED results
       ELSE /\ processedData' = processedDataOf(results)
            /\ results' = [i \in DOMAIN results |->
                    LET kept == Len(results[i].timestamp) - Len(processedData'[i].times)
                    IN  [results[i] EXCEPT !.timestamp = SubSeq(@, 1, kept),
                                           !.close = SubSeq(@, 1, kept)]]
            /\ IF minLenOf(processedData') < MinAlignedLength
               THEN /\ calcValues' = <<>>
                    /\ rangeIdx' = rangeIdx + 1
                    /\ calcPc' = "loop"
               ELSE /\ calcValues' = calcValuesOf(calcItems, processedData')
                    /\ calcPc' = "mdd"
                    /\ UNCHANGED rangeIdx
    /\ mddIdx' = 0
    /\ peak' = MddStart.peak
    /\ maxDrawdown' = MddStart.maxDrawdown
    /\ UNCHANGED <<calcItems, fetchLog, metrics, otherVars>>

\* Promise.all resolved: the range is rejected (continue), fails (catch), or its
\* synthetic series is built and the running-peak loop started
CalcProcess ==
    /\ calcPc = "await"
    /\ \A i \in DOMAIN results : results[i] # Pending
    /\ IF RawRejects(results) \/ CalcThrows(results)
       THEN /\ processedData' = <<>>
            /\ calcValues' = <<>>
            /\ rangeIdx' = rangeIdx + 1
            /\ calcPc' = "loop"
       ELSE /\ processedData' = processedDataOf(results)
            /\ IF minLenOf(processedData') < MinAlignedLength
               THEN /\ calcValues' = <<>>
                    /\ rangeIdx' = rangeIdx + 1
                    /\ calcPc' = "loop"
               ELSE /\ calcValues' = calcValuesOf(calcItems, processedData')
                    /\ calcPc' = "mdd"
                    /\ UNCHANGED rangeIdx
    /\ mddIdx' = 0
    /\ peak' = MddStart.peak
    /\ maxDrawdown' = MddStart.maxDrawdown
    /\ UNCHANGED <<calcItems, results, fetchLog, metrics, otherVars>>

\* one iteration of portfolioValues.forEach of the prober
CalcMddLoopStep ==
    /\ calcPc = "mdd"
    /\ mddIdx < Len(calcValues)
    /\ LET acc == calcMddStep([peak |-> peak, maxDrawdown |-> maxDrawdown], calcValues[mddIdx + 1])
       IN  /\ peak' = acc.peak
           /\ maxDrawdown' = acc.maxDrawdown
    /\ mddIdx' = mddIdx + 1
    /\ UNCHANGED <<calcPc, calcItems, rangeIdx, results, fetchLog, processedData, calcValues,
                   metrics, otherVars>>

\* the loop has ended: the record of the range is returned
CalcReturn ==
    /\ calcPc = "mdd"
    /\ mddIdx = Len(calcValues)
    /\ metrics' = calcMetricsOf(processedData, calcValues, maxDrawdown, ranges[rangeIdx])
    /\ calcPc' = "returned"
    /\ UNCHANGED <<calcItems, rangeIdx, results, fetchLog, processedData, calcValues,
                   calcMddVars, otherVars>>

\* every range was rejected or failed: the sentinel is returned
CalcExhausted ==
    /\ calcPc = "loop"
    /\ rangeIdx > Len(ranges)
    /\ metrics' = NotAvailable
    /\ calcPc' = "returned"
    /\ UNCHANGED <<calcItems, rangeIdx, results, fetchLog, processedData, calcValues,
                   calcMddVars, otherVars>>

NextCalc ==
    \/ CalcFetch
    \/ \E i \in DOMAIN results : CalcFetched(i)
    \/ CalcProcess
    \/ CalcMddLoopStep
    \/ CalcReturn
    \/ CalcExhausted

SpecCalc == InitCalc /\ [][NextCalc]_vars

---------------------------------------------------------------------------
(* Both analytics functions: one analysis of the portfolio, or one probe of a
   preset *)

InitBoth == Init \/ InitCalc

NextBoth == Next \/ NextCalc

SpecBoth == InitBoth /\ [][NextBoth]_vars

---------------------------------------------------------------------------
(* The page around the analytics functions *)

\* the state of analyzePortfolio and calcPortfolioMetrics
coreVars == <<pc, items, range, exchangeDataRaw, stockResultsRaw, dataVars, display,
              alerted, mddVars, calcVars>>

\* neither analytics function has been called
CoreIdle ==
    /\ pc = "idle"
    /\ items = <<>>
    /\ range = "5y"
    /\ exchangeDataRaw = Pending
    /\ stockResultsRaw = <<>>
    /\ dateToExchange = EmptyMap
    /\ dateToStocks = <<>>
    /\ sortedDates = <<>>
    /\ di = 0
    /\ lastExchange = 0
    /\ lastPrices = <<>>
    /\ portfolioValues = <<>>
    /\ chartLabels = <<>>
    /\ stats = NoStats
    /\ display = [statsVisible |-> FALSE, loading |-> FALSE, statReturn |-> NoText,
                  statCagr |-> NoText, statMdd |-> NoText]
    /\ alerted = NoAlert
    /\ mddVals = <<>>
    /\ mddIdx = 0
    /\ peak = NegInf
    /\ maxDrawdown = Num(0)
    /\ startValues = <<>>
    /\ endValues = <<>>
    /\ calcPc = "idle"
    /\ calcItems = <<>>
    /\ rangeIdx = 1
    /\ results = <<>>
    /\ fetchLog = <<>>
    /\ processedData = <<>>
    /\ calcValues = <<>>
    /\ metrics = NoMetrics

---------------------------------------------------------------------------
(* fetchYahooData(symbol, range, interval) *)

\* number of fetchYahooData calls explored
MaxCalls == 4

\* proxies.length
NumProxies == 2

\* apiCache.has(cacheKey)
has(cache, cacheKey) == cache[cacheKey] # 0

\* the async function of a new attempt has run up to its first await: the request
\* to the first proxy is out
NewAttempt(cacheKey) == [key |-> cacheKey, proxy |-> 1, st |-> "pending"]

InitFetch == CoreIdle /\ AppIdle

\* a mutation of FetchYahooData: the promise is not stored, only looked up
FetchYahooDataWithoutSet(cacheKey) ==
    /\ Len(callLog) < MaxCalls
    /\ IF has(apiCache, cacheKey)
       THEN /\ callLog' = Append(callLog, [key |-> cacheKey, promise |-> apiCache[cacheKey],
                                           fresh |-> FALSE])
            /\ UNCHANGED <<apiCache, promises, requests>>
       ELSE /\ promises' = Append(promises, NewAttempt(cacheKey))
            /\ requests' = [requests EXCEPT ![cacheKey] = @ + 1]
            /\ callLog' = Append(callLog, [key |-> cacheKey, promise |-> Len(promises) + 1,
                                           fresh |-> TRUE])
            /\ UNCHANGED apiCache
    /\ UNCHANGED <<coreVars, raceVars, editVars, recVars, saveVars>>

\* one call: a cache hit returns the stored promise; otherwise a new attempt is
\* started (its first request issued), stored under the key and returned
FetchYahooData(cacheKey) ==
    /\ Len(callLog) < MaxCalls
    /\ IF has(apiCache, cacheKey)
       THEN /\ callLog' = Append(callLog, [key |-> cacheKey, promise |-> apiCache[cacheKey],
                                           fresh |-> FALSE])
            /\ UNCHANGED <<apiCache, promises, requests>>
       ELSE /\ promises' = Append(promises, NewAttempt(cacheKey))
            /\ requests' = [requests EXCEPT ![cacheKey] = @ + 1]
            /\ apiCache' = [apiCache EXCEPT ![cacheKey] = Len(promises) + 1]
            /\ callLog' = Append(callLog, [key |-> cacheKey, promise |-> Len(promises) + 1,
                                           fresh |-> TRUE])
    /\ UNCHANGED <<coreVars, raceVars, editVars, recVars, saveVars>>

\* a mutation of ProxyResponds: the entry is kept when every proxy has failed
ProxyRespondsKeepingEntry(p) ==
    /\ promises[p].st = "pending"
    /\ \E hasResult \in BOOLEAN :
        IF hasResult
        THEN /\ promises' = [promises EXCEPT ![p].st = "result"]
             /\ UNCHANGED <<apiCache, requests>>
        ELSE IF promises[p].proxy < NumProxies
        THEN /\ promises' = [promises EXCEPT ![p].proxy = @ + 1]
             /\ requests' = [requests EXCEPT ![promises[p].key] = @ + 1]
             /\ UNCHANGED apiCache
        ELSE /\ promises' = [promises EXCEPT ![p].st = "null"]
             /\ UNCHANGED <<apiCache, requests>>
    /\ UNCHANGED <<callLog, coreVars, raceVars, editVars, recVars, saveVars>>

\* the request of attempt p to its current proxy ends: with data.chart.result the
\* attempt resolves to result[0]; otherwise (status not ok, no result, exception,
\* abort by the timeout) the next proxy is asked, and after the last proxy the
\* entry of the key is deleted and the attempt resolves to null
ProxyResponds(p) ==
    /\ promises[p].st = "pending"
    /\ \E hasResult \in BOOLEAN :
        IF hasResult
        THEN /\ promises' = [promises EXCEPT ![p].st = "result"]
             /\ UNCHANGED <<apiCache, requests>>
        ELSE IF promises[p].proxy < NumProxies
        THEN /\ promises' = [promises EXCEPT ![p].proxy = @ + 1]
             /\ requests' = [requests EXCEPT ![promises[p].key] = @ + 1]
             /\ UNCHANGED apiCache
        ELSE /\ promises' = [promises EXCEPT ![p].st = "null"]
             /\ apiCache' = [apiCache EXCEPT ![promises[p].key] = 0]
             /\ UNCHANGED requests
    /\ UNCHANGED <<callLog, coreVars, raceVars, editVars, recVars, saveVars>>

NextFetch ==
    \/ \E cacheKey \in CacheKeys : FetchYahooData(cacheKey)
    \/ \E p \in DOMAIN promises : ProxyResponds(p)

SpecFetch == InitFetch /\ [][NextFetch]_vars

---------------------------------------------------------------------------
(* Reference notions the properties are stated with *)

\* the valuation stage was reached: maps, axis and forward-fill state exist
Aligned == pc = "valuate" \/ (pc \in {"finally", "done"} /\ alerted = NoAlert)

\* the analysis ran to its end and displayed the statistics
Reported == pc \in {"finally", "done"} /\ alerted = NoAlert

\* a result that carries a series: fetched, with a timestamp array
Usable(res) == res.st = "ok" /\ res.hasTs

ZeroText == [k |-> "num", cents |-> 0]

\* the results that contribute observations: the FX result and the fetched holdings
Fetched == { exchangeDataRaw } \cup { stockResultsRaw[i] : i \in DOMAIN stockResultsRaw }

\* the calendar dates observed in any fetched series
ObservedDates ==
    { t \div SecsPerDay : t \in UNION { { r.timestamp[i] : i \in DOMAIN r.timestamp } : r \in Fetched } }

\* the indices of a result's observations that are valid (non-null) and dated at or before d
ValidUpTo(res, d) ==
    { i \in DOMAIN res.timestamp : res.timestamp[i] \div SecsPerDay <= d /\ res.close[i] # Null }

MaxOf(S) == CHOOSE x \in S : \A y \in S : y <= x

\* forward fill of a date map read off declaratively: the entry of the latest date
\* at or before d that holds a non-null value, else the given seed
FillAt(map, d, seed) ==
    LET known == { x \in DOMAIN map : x <= d /\ map[x] # Null }
    IN  IF known = {} THEN seed ELSE map[MaxOf(known)][1]

---------------------------------------------------------------------------
(* Properties *)

RECURSIVE ReferenceTotal(_, _)
\* sum over the first n holdings of effective price x quantity x multiplier on
\* axis date k, all read off the date maps declaratively
ReferenceTotal(k, n) ==
    IF n = 0 THEN 0
    ELSE LET d    == sortedDates[k]
             px   == FillAt(dateToStocks[n], d, 0)
             fx   == FillAt(dateToExchange, d, InitialExchange(exchangeDataRaw))
             mult == IF Domestic(items[n].symbol) THEN 1 ELSE fx
         IN  ReferenceTotal(k, n - 1) + px * items[n].quantity * mult

\* C1: the value recorded for every axis date processed so far equals the sum over
\* all holdings of (effective forward-filled price on that date x quantity x
\* multiplier), the multiplier being 1 for a symbol ending in .KS or .KQ and the
\* effective forward-filled FX rate on that date for every other holding.
C1_ValuationIsWeightedSum ==
    Aligned =>
        \A k \in 1..Len(portfolioValues) :
            portfolioValues[k] = ReferenceTotal(k, Len(items))

\* C1 witness (Scenario C shape): a foreign holding at price 2, quantity 2, FX 3
\* and a domestic holding at price 5, quantity 1, valued 2*2*3 + 5 = 17 on a date
\* reached by forward fill.
C1_Witness ==
    /\ pc = "valuate"
    /\ di = 3
    /\ items[1].symbol = SymAAPL
    /\ lastPrices = <<2, 5>>
    /\ lastExchange = 3
    /\ portfolioValues[3] = 17
    /\ sortedDates[3] \notin DOMAIN dateToStocks[1]

\* C3: the unified axis is exactly the set of distinct calendar dates observed in
\* the FX series or in any fetched holding series, strictly increasing, and its
\* length is the number of distinct dates.
C3_AxisIsSortedUnion ==
    Aligned =>
        /\ { sortedDates[k] : k \in DOMAIN sortedDates } = ObservedDates
        /\ \A k \in 1..(Len(sortedDates) - 1) : sortedDates[k] < sortedDates[k + 1]
        /\ Len(sortedDates) = Cardinality(ObservedDates)

\* C3 witness: three axis dates, one observed only in the FX series, one shared
\* by two series, and one carrying two timestamps of the same holding.
C3_Witness ==
    /\ pc = "valuate"
    /\ Len(sortedDates) = 3
    /\ \E d \in DOMAIN dateToExchange : \A i \in DOMAIN dateToStocks : d \notin DOMAIN dateToStocks[i]
    /\ \E d \in DOMAIN dateToExchange : \E i \in DOMAIN dateToStocks : d \in DOMAIN dateToStocks[i]
    /\ \E i \in DOMAIN stockResultsRaw :
          Len(stockResultsRaw[i].timestamp) > Cardinality(DOMAIN dateToStocks[i])

\* C2: for every holding and every axis date d at or after the holding's first
\* valid observation, the price used on d is the close of the holding's most
\* recent valid observation dated at or before d (so between observations at
\* d1 < d2 every axis date in [d1, d2) carries the price of d1).
C2_PriceIsLastValidObservation ==
    (pc = "valuate" /\ di >= 1) =>
        \A i \in DOMAIN items :
            LET res   == stockResultsRaw[i]
                valid == ValidUpTo(res, sortedDates[di])
            IN  valid # {} => lastPrices[i] = res.close[MaxOf(valid)][1]

\* every observation of the result on date d is a null close, and there is one
OnlyNullOn(res, d) ==
    /\ \E i \in DOMAIN res.timestamp : res.timestamp[i] \div SecsPerDay = d
    /\ \A i \in DOMAIN res.timestamp : res.timestamp[i] \div SecsPerDay = d => res.close[i] = Null

\* a valid close of the result survives in the date map built from it
ValidKept(res, map) ==
    \A i \in DOMAIN res.timestamp :
        res.close[i] # Null => map[res.timestamp[i] \div SecsPerDay] # Null

\* C4: a null close is treated as absent: after processing a date on which a
\* series only has null closes its forward-fill state is what it was before that
\* date, and a valid close observed for a calendar date is never displaced by a
\* null close.
C4_NullCloseIsAbsent ==
    Aligned =>
        /\ ValidKept(exchangeDataRaw, dateToExchange)
        /\ \A i \in DOMAIN items : ValidKept(stockResultsRaw[i], dateToStocks[i])
        /\ (pc = "valuate" /\ di >= 1) =>
              LET d == sortedDates[di]
              IN  /\ OnlyNullOn(exchangeDataRaw, d) =>
                        lastExchange = FillAt(dateToExchange, d - 1, InitialExchange(exchangeDataRaw))
                  /\ \A i \in DOMAIN items :
                        OnlyNullOn(stockResultsRaw[i], d) =>
                            lastPrices[i] = FillAt(dateToStocks[i], d - 1, 0)

\* C5: on every axis date that precedes the first real (non-null) FX observation
\* the rate used is the fallback constant 1200; from the first real FX
\* observation onward it is the most recent real observation at or before the date.
C5_FallbackUntilFirstObservation ==
    (pc = "valuate" /\ di >= 1) =>
        LET valid == ValidUpTo(exchangeDataRaw, sortedDates[di])
        IN  lastExchange = IF valid = {} THEN 1200
                           ELSE exchangeDataRaw.close[MaxOf(valid)][1]

\* C6: a holding contributes 0 on every axis date before its first valid
\* observation, a holding with no valid observation at all contributes 0 on every
\* axis date, and no holding result makes the analysis raise: an error is only
\* ever raised on account of the FX result.
C6_MissingHoldingContributesZero ==
    /\ (pc = "valuate" /\ di >= 1) =>
          \A i \in DOMAIN items :
              ValidUpTo(stockResultsRaw[i], sortedDates[di]) = {} =>
                  valueInKRW(items[i], lastPrices[i], lastExchange) = 0
    /\ pc = "catch" => (exchangeDataRaw.st = "null" \/ ~exchangeDataRaw.hasTs)

\* C7: when the first value of the valuation series is 0 (a zero or negative
\* denominator), the displayed total return and CAGR are 0, and neither NaN nor
\* Infinity is displayed for them.
C7_DegenerateStatsShowZero ==
    (Reported /\ Len(portfolioValues) > 0) =>
        /\ display.statReturn.k \in {"num", "decimal"}
        /\ display.statCagr.k \in {"num", "decimal"}
        /\ (Len(portfolioValues) > 0 /\ portfolioValues[1] <= 0) =>
              (display.statReturn = ZeroText /\ display.statCagr = ZeroText)

\* C8: a hard failure (error alert, no statistics) is surfaced only when no
\* requested series could be fetched, and whenever at least one holding's series
\* was fetched the analysis completes and displays its report.
C8_HardFailureOnlyWhenAllFailed ==
    /\ alerted = "error" => \A r \in Fetched : ~Usable(r)
    /\ (pc = "done" /\ \E i \in DOMAIN stockResultsRaw : Usable(stockResultsRaw[i])) =>
          (alerted = NoAlert /\ display.statsVisible)

\* (last/first)^(1/years) - 1 in percent, for first > 0 and last > 0
ReferenceCagr(first, last, years) ==
    IF years = Num(1) THEN Frac((last - first) * 100, first)
    ELSE IF last = first THEN Num(0)
    ELSE [k |-> "root", q |-> Frac(last, first), years |-> years]

\* C9: the CAGR is (last/first)^(1/years) - 1 exactly when both the first and the
\* last value of the valuation series are strictly positive; in every other case
\* the CAGR computed and displayed is exactly 0.
C9_CagrOnlyWhenBothPositive ==
    Reported =>
        LET n == Len(portfolioValues)
        IN  IF n > 0 /\ portfolioValues[1] > 0 /\ portfolioValues[n] > 0
            THEN stats.cagr = ReferenceCagr(portfolioValues[1], portfolioValues[n], yearsOf(range))
            ELSE stats.cagr = Num(0) /\ display.statCagr = ZeroText

\* C9 witness: a one-year analysis whose series grows from a positive first value
\* to a larger last value, with the positive CAGR computed from their ratio.
C9_Witness ==
    /\ Reported
    /\ range = "1y"
    /\ Len(portfolioValues) = 3
    /\ portfolioValues[1] > 0
    /\ portfolioValues[3] > portfolioValues[1]
    /\ stats.cagr.k = "num"
    /\ stats.cagr.n > 0

\* the values the drawdown loop has consumed are all positive
AllPositiveSoFar == \A i \in 1..mddIdx : mddVals[i] > 0

\* C10: the maximum drawdown of the running-peak loop is never greater than 0,
\* for any value series, and lies in [-100, 0] percent whenever every value of
\* the series is positive.
C10_DrawdownBound ==
    /\ Le(maxDrawdown, Num(0))
    /\ AllPositiveSoFar => Le(Num(-100), Scale(maxDrawdown, 100))
    /\ (pc = "mddDone" /\ AllPositiveSoFar) =>
          (display.statMdd.k = "num" /\ display.statMdd.cents \in -10000..0)

\* C10 witness: the loop has run over the positive series 2, 1, 3 and found the
\* drawdown from the peak 2 to the trough 1, -50 percent.
C10_Witness ==
    /\ pc = "mddDone"
    /\ mddVals = <<2, 1, 3>>
    /\ maxDrawdown = Frac(-1, 2)
    /\ display.statMdd = [k |-> "num", cents |-> -5000]

\* the decline of the j-th value from the highest value among the first j
DrawdownAt(vals, j) ==
    LET running == MaxOf({ vals[i] : i \in 1..j })
    IN  Frac(vals[j] - running, running)

\* C11: for a series of positive values the maximum drawdown is the minimum over
\* j of (v[j] - max(v[0..j])) / max(v[0..j]); for the series 100, 50, 100 it is
\* -50 percent while the total return is 0 percent.
C11_DrawdownIsMinimumDecline ==
    /\ (AllPositiveSoFar /\ mddIdx > 0) =>
          /\ \E j \in 1..mddIdx : maxDrawdown = DrawdownAt(mddVals, j)
          /\ \A j \in 1..mddIdx : Le(maxDrawdown, DrawdownAt(mddVals, j))
    /\ (pc = "mddDone" /\ mddVals = <<100, 50, 100>>) =>
          /\ display.statMdd = [k |-> "num", cents |-> -5000]
          /\ stats.totalReturn = Num(0)
          /\ display.statReturn = ZeroText

\* C11 witness: the metrics of the series 100, 50, 100 have been reported.
C11_Witness ==
    /\ pc = "mddDone"
    /\ mddVals = <<100, 50, 100>>
    /\ maxDrawdown = Frac(-1, 2)
    /\ stats.totalReturn = Num(0)

\* C19: for a value series whose first and last values are the same v > 0 the
\* reported CAGR is 0 and the reported total return is 0, for every range key.
C19_FlatEndsGiveZeroGrowth ==
    (/\ pc = "mddDone"
     /\ Len(mddVals) > 0
     /\ mddVals[1] > 0
     /\ mddVals[Len(mddVals)] = mddVals[1]) =>
        /\ stats.cagr = Num(0)
        /\ stats.totalReturn = Num(0)
        /\ display.statCagr = ZeroText
        /\ display.statReturn = ZeroText

\* C19 witness: the series 3, 50, 3 analysed over six months, a range whose
\* exponent 1 / years is not 1.
C19_Witness ==
    /\ pc = "mddDone"
    /\ range = "6mo"
    /\ mddVals = <<3, 50, 3>>
    /\ stats.cagr = Num(0)
    /\ stats.totalReturn = Num(0)

\* C12: the valuation series holds exactly one value per axis date, in axis
\* order, each the valuation of its own date; the chart labels are the axis; and
\* the series is non-empty whenever some fetched series is non-empty.
C12_OneValuePerAxisDate ==
    /\ Aligned =>
          /\ Len(portfolioValues) = di
          /\ chartLabels = SubSeq(sortedDates, 1, di)
          /\ \A k \in 1..di : portfolioValues[k] = ReferenceTotal(k, Len(items))
    /\ Reported =>
          /\ Len(portfolioValues) = Len(sortedDates)
          /\ chartLabels = sortedDates
          /\ (\E r \in Fetched : Len(r.timestamp) > 0) => Len(portfolioValues) > 0

\* C12 witness: a completed analysis over three axis dates where only the FX
\* series covers all three.
C12_Witness ==
    /\ Reported
    /\ Len(sortedDates) = 3
    /\ Len(portfolioValues) = 3
    /\ \E i \in DOMAIN stockResultsRaw : Len(stockResultsRaw[i].timestamp) = 0
    /\ \A i \in DOMAIN dateToStocks : Cardinality(DOMAIN dateToStocks[i]) < 3

\* every quantity, every observed price and every observed FX rate is >= 0
InputsNonNegative ==
    /\ \A i \in DOMAIN items : items[i].quantity >= 0
    /\ \A r \in Fetched : \A i \in DOMAIN r.close : r.close[i] # Null => r.close[i][1] >= 0

\* C13: if every quantity, observed price and FX rate is >= 0, every value of
\* the valuation series is >= 0.
C13_ValuesNonNegative ==
    InputsNonNegative => \A k \in DOMAIN portfolioValues : portfolioValues[k] >= 0

\* C13 witness: a series that starts at 0, before any price is seen, and then
\* turns positive.
C13_Witness ==
    /\ Reported
    /\ InputsNonNegative
    /\ Len(portfolioValues) >= 2
    /\ portfolioValues[1] = 0
    /\ portfolioValues[Len(portfolioValues)] > 0

MinOf(S) == CHOOSE x \in S : \A y \in S : x <= y

\* what a product makes of an observed close: null counts as 0
Worth(entry) == IF entry = Null THEN 0 ELSE entry[1]

\* the close of a result's last observation on calendar date d, or "none"
EntryOn(res, d) ==
    LET on == { i \in DOMAIN res.timestamp : res.timestamp[i] \div SecsPerDay = d }
    IN  IF on = {} THEN "none" ELSE res.close[MaxOf(on)]

\* the start snapshot of holding h as read off the fetched data: its entry on the
\* first axis date, in KRW at the FX entry of that same date (1200 without one)
StartSnapshot(h) ==
    LET d  == MinOf(ObservedDates)
        px == EntryOn(stockResultsRaw[h], d)
        fx == EntryOn(exchangeDataRaw, d)
        mult == IF Domestic(items[h].symbol) THEN 1
                ELSE IF fx = "none" THEN 1200 ELSE Worth(fx)
    IN  IF px = "none" THEN 0 ELSE Worth(px) * items[h].quantity * mult

\* what the code reports instead: the entry of the first axis date, 0 for a
\* holding without an observation on that date even if it is priced later, and
\* a null close or a null FX close on that date counted as 0
StartSnapshotIsFirstAxisDateEntry ==
    Reported =>
        /\ Len(startValues) = Len(items)
        /\ \A h \in DOMAIN items :
              startValues[h] = IF ObservedDates = {} THEN 0 ELSE StartSnapshot(h)

\* a holding first priced after the first axis date is reported at 0 while
\* another holding, priced on the first axis date, is reported at its value
LaterListedHoldingReportedAtZero ==
    /\ Reported
    /\ Len(sortedDates) >= 2
    /\ \E h \in DOMAIN items :
          /\ sortedDates[1] \notin DOMAIN dateToStocks[h]
          /\ \E d \in DOMAIN dateToStocks[h] : dateToStocks[h][d] # Null
          /\ startValues[h] = 0
    /\ \E h \in DOMAIN items : startValues[h] > 0

\* C14: the start snapshot of a holding is quantity x its price on the first
\* axis date on which it has a price x its currency multiplier, and 0 if it
\* never has a price; the snapshots add nothing to the valuation series.
C14_StartSnapshotAtFirstPricedDate ==
    Reported =>
        /\ Len(portfolioValues) = Len(sortedDates)
        /\ \A h \in DOMAIN items :
              LET priced == { d \in DOMAIN dateToStocks[h] : dateToStocks[h][d] # Null }
                  first  == MinOf(priced)
                  mult   == IF Domestic(items[h].symbol) THEN 1
                            ELSE FillAt(dateToExchange, first, InitialExchange(exchangeDataRaw))
              IN  startValues[h] =
                      IF priced = {} THEN 0
                      ELSE dateToStocks[h][first][1] * items[h].quantity * mult

\* the number of a result's observations at or after time t
CountFrom(res, t) == Cardinality({ i \in DOMAIN res.timestamp : res.timestamp[i] >= t })

\* the latest of the series' first timestamps
LatestStart(rs) == MaxOf({ rs[i].timestamp[1] : i \in DOMAIN rs })

\* every asset was fetched with at least 10 raw observations
EnoughRaw(rs) == \A i \in DOMAIN rs : Usable(rs[i]) /\ Len(rs[i].timestamp) >= 10

\* both data checks: enough raw observations, and at least 120 observations of
\* every asset from the latest common start on
PassesDataChecks(rs) ==
    /\ EnoughRaw(rs)
    /\ \A i \in DOMAIN rs : CountFrom(rs[i], LatestStart(rs)) >= 120

\* the attempt on these results fails with an exception: a series without closes
AttemptFails(rs) == \E i \in DOMAIN rs : Usable(rs[i]) /\ rs[i].close = Null

\* C15: the ranges are tried strictly in the order 10y, 5y, 3y, 1y; a later
\* range is fetched only after the range before it was rejected or failed; and the
\* returned label is the range fetched last, whose data passes both data checks.
C15_RangesTriedInOrder ==
    /\ [](fetchLog = SubSeq(<<"10y", "5y", "3y", "1y">>, 1, Len(fetchLog)))
    /\ []((calcPc = "returned" /\ metrics.range # "N/A") =>
            /\ metrics.range = fetchLog[Len(fetchLog)]
            /\ PassesDataChecks(results)
            /\ ~AttemptFails(results))
    /\ [][(Len(fetchLog') > Len(fetchLog) /\ Len(fetchLog) > 0) =>
            /\ \A i \in DOMAIN results : results[i] # Pending
            /\ ~PassesDataChecks(results) \/ AttemptFails(results)]_vars

\* C15 witness: 10y and 5y were given up, and the record of 3y was returned for
\* a preset of two assets.
C15_Witness ==
    /\ calcPc = "returned"
    /\ fetchLog = <<"10y", "5y", "3y">>
    /\ metrics.range = "3y"
    /\ Len(calcItems) = 2

\* a range was accepted: its synthetic series exists or its record was returned
RangeAccepted == calcPc = "mdd" \/ (calcPc = "returned" /\ metrics.range # "N/A")

\* C16: a range other than N/A is returned only if every asset was fetched with
\* at least 10 raw observations and the shortest series, cut to the latest common
\* start, has at least 120 observations; when the last range fails a check too,
\* the result is exactly {range: 'N/A', return: '0.00', mdd: '0.00'}.
C16_SentinelUnlessEnoughData ==
    /\ RangeAccepted =>
          /\ EnoughRaw(results)
          /\ \A i \in DOMAIN results : CountFrom(results[i], LatestStart(results)) >= 120
          /\ \A i \in DOMAIN processedData : Len(processedData[i].times) >= 120
    /\ (calcPc = "returned" /\ ~PassesDataChecks(results)) =>
          /\ Len(fetchLog) = 4
          /\ metrics = [range |-> "N/A",
                        return |-> [k |-> "num", cents |-> 0],
                        mdd |-> [k |-> "num", cents |-> 0]]

\* C16 witness: the sentinel was returned after 1y, where both assets have 10 or
\* more raw observations but one starts so late that the other is cut below 120.
C16_Witness ==
    /\ calcPc = "returned"
    /\ metrics.range = "N/A"
    /\ Len(results) = 2
    /\ EnoughRaw(results)
    /\ \A i \in DOMAIN results : Len(results[i].timestamp) >= 120
    /\ \E i \in DOMAIN results : CountFrom(results[i], LatestStart(results)) = 119

\* a finite decimal string
FiniteText(t) == t.k \in {"num", "decimal"}

\* C17: whatever was fetched, calcPortfolioMetrics returns a well-formed record
\* whose return and mdd are finite decimal strings, never NaN or Infinity.
C17_AlwaysFiniteRecord ==
    calcPc = "returned" =>
        /\ metrics.range \in {"10y", "5y", "3y", "1y", "N/A"}
        /\ FiniteText(metrics.return)
        /\ FiniteText(metrics.mdd)

\* C18: every point of the synthetic series combines normalized prices that
\* were observed on the same calendar day.
C18_PointsCombineSameDay ==
    RangeAccepted =>
        \A i \in DOMAIN calcValues :
            \A a, b \in DOMAIN processedData :
                processedData[a].times[i] \div SecsPerDay = processedData[b].times[i] \div SecsPerDay

RECURSIVE SumOf(_, _)
\* the sum of the first n entries of a sequence of numbers
SumOf(seq, n) == IF n = 0 THEN 0 ELSE SumOf(seq, n - 1) + seq[n]

\* C29: each composition snapshot sums to the portfolio value on its date: the
\* end composition to the last value of the valuation series, the start
\* composition to its first value.
C29_SnapshotsSumToValuation ==
    (Reported /\ Len(portfolioValues) > 0) =>
        /\ SumOf(endValues, Len(endValues)) = portfolioValues[Len(portfolioValues)]
        /\ SumOf(startValues, Len(startValues)) = portfolioValues[1]

\* the end half alone: the end composition sums to the last valuation value
EndSnapshotSumsToLastValue ==
    (Reported /\ Len(portfolioValues) > 0) =>
        SumOf(endValues, Len(endValues)) = portfolioValues[Len(portfolioValues)]

\* the start half when the FX series has a valid entry on the first axis date
\* and no close of that date is null
StartSnapshotSumsWhenFirstDateComplete ==
    (/\ Reported
     /\ Len(portfolioValues) > 0
     /\ sortedDates[1] \in DOMAIN dateToExchange
     /\ dateToExchange[sortedDates[1]] # Null
     /\ \A h \in DOMAIN items :
           sortedDates[1] \in DOMAIN dateToStocks[h] => dateToStocks[h][sortedDates[1]] # Null) =>
        SumOf(startValues, Len(startValues)) = portfolioValues[1]


---------------------------------------------------------------------------
(* analyzePortfolio called again while a call is in progress *)

\* number of analyzePortfolio calls explored
MaxAnalyses == 2

\* number of holdings of the portfolio analysed
RaceHoldings == 2

\* the ranges of the analyze button and of the range buttons used
RaceRanges == {"1y", "5y"}

InitRace == CoreIdle /\ AppIdle

\* finally: the loading notice is hidden and the chart container shown
AfterFinally(sh) == [sh EXCEPT !.loading = FALSE, !.container = TRUE]

\* entry of a call: the loading notice is shown with count 0, the chart container,
\* the statistics and the composition are hidden, the FX fetch is started
AnalyzePortfolio(r) ==
    /\ Len(calls) < MaxAnalyses
    /\ calls' = Append(calls, [range |-> r, pc |-> "awaitFX", pending |-> {},
                               completedCount |-> 0, outcome |-> "none"])
    /\ shown' = [shown EXCEPT !.loading = TRUE, !.loadingCount = 0, !.container = FALSE,
                              !.stats = "hidden", !.composition = "hidden"]
    /\ UNCHANGED <<coreVars, fetchVars, editVars, recVars, saveVars>>

\* the FX fetch of call c resolves: null throws (catch, finally), otherwise the
\* fetch of every holding is started
RaceExchangeFetched(c) ==
    /\ calls[c].pc = "awaitFX"
    /\ \E isNull \in BOOLEAN :
        IF isNull
        THEN /\ calls' = [calls EXCEPT ![c].pc = "done", ![c].outcome = "failed"]
             /\ shown' = AfterFinally(shown)
        ELSE /\ calls' = [calls EXCEPT ![c].pc = "awaitStocks", ![c].pending = 1..RaceHoldings]
             /\ UNCHANGED shown
    /\ UNCHANGED <<coreVars, fetchVars, editVars, recVars, saveVars>>

\* the fetch of holding i of call c resolves: updateProgress
RaceStockFetched(c, i) ==
    /\ calls[c].pc = "awaitStocks"
    /\ i \in calls[c].pending
    /\ calls' = [calls EXCEPT ![c].pending = @ \ {i}, ![c].completedCount = @ + 1]
    /\ shown' = [shown EXCEPT !.loadingCount = calls[c].completedCount + 1]
    /\ UNCHANGED <<coreVars, fetchVars, editVars, recVars, saveVars>>

\* Promise.all of call c resolved: the data are processed and the statistics, both
\* composition charts and the value chart rendered in one run, or the processing
\* throws before anything is rendered; finally
RaceComplete(c) ==
    /\ calls[c].pc = "awaitStocks"
    /\ calls[c].pending = {}
    /\ \E throws \in BOOLEAN :
        IF throws
        THEN /\ calls' = [calls EXCEPT ![c].pc = "done", ![c].outcome = "failed"]
             /\ shown' = AfterFinally(shown)
        ELSE /\ calls' = [calls EXCEPT ![c].pc = "done", ![c].outcome = "rendered"]
             /\ shown' = AfterFinally([shown EXCEPT !.stats = calls[c].range,
                                                    !.composition = calls[c].range,
                                                    !.chart = calls[c].range])
    /\ UNCHANGED <<coreVars, fetchVars, editVars, recVars, saveVars>>

NextRace ==
    \/ \E r \in RaceRanges : AnalyzePortfolio(r)
    \/ \E c \in DOMAIN calls : RaceExchangeFetched(c)
    \/ \E c \in DOMAIN calls : \E i \in 1..RaceHoldings : RaceStockFetched(c, i)
    \/ \E c \in DOMAIN calls : RaceComplete(c)

SpecRace == InitRace /\ [][NextRace]_vars

---------------------------------------------------------------------------
(* The portfolio and its copy in localStorage: addToPortfolio, removeFromPortfolio,
   the quantity inputs, copyPortfolio, and syncDataFromDrive after login *)

\* number of user operations explored
MaxEdits == 3

\* symbols the search can add
EditSymbols == {"AAPL", "VTI"}

\* data.name of a search result
NameOf(symbol) == IF symbol = "AAPL" THEN "Apple Inc." ELSE "Vanguard Total Stock Market"

\* values of a quantity input (type="number": an invalid entry reads as "")
QtyTexts == {"", "-1", "0", "2"}

\* parseFloat of an input value
parseFloat(text) ==
    IF text = "" THEN NaN
    ELSE IF text = "-1" THEN Num(-1)
    ELSE IF text = "0" THEN Num(0)
    ELSE Num(2)

\* a holding as addToPortfolio and copyPortfolio create it
Holding(symbol, name, quantity) ==
    [symbol |-> symbol, name |-> name, currency |-> "USD", quantity |-> quantity]

\* portfolio[symbol] = holding
PortfolioPut(pf, symbol, holding) ==
    [s \in (DOMAIN pf) \cup {symbol} |-> IF s = symbol THEN holding ELSE pf[s]]

\* delete portfolio[symbol]
PortfolioDelete(pf, symbol) == [s \in (DOMAIN pf) \ {symbol} |-> pf[s]]

\* JSON text of a number: NaN and the infinities are written as null
jsonOf(x) == IF IsNum(x) THEN [k |-> "jsonNumber", n |-> x.n, d |-> x.d] ELSE [k |-> "jsonNull"]

\* the value JSON.parse reads back
fromJson(j) == IF j.k = "jsonNumber" THEN Frac(j.n, j.d) ELSE [k |-> "null"]

\* JSON.stringify(portfolio), as the item localStorage then holds
stringify(pf) ==
    [present |-> TRUE, json |-> [s \in DOMAIN pf |-> [pf[s] EXCEPT !.quantity = jsonOf(@)]]]

\* savePortfolio() with the portfolio being pf
savePortfolio(pf) == stringify(pf)

\* the portfolio the page loads from localStorage (object format)
loadPortfolio(item) ==
    IF item.present
    THEN [s \in DOMAIN item.json |-> [item.json[s] EXCEPT !.quantity = fromJson(@)]]
    ELSE EmptyPortfolio

\* portfolios found in localStorage when the page loads
SavedPortfolios == { [s \in {"AAPL"} |-> Holding("AAPL", NameOf("AAPL"), Num(2))] }

\* the preset copied: us7_world3
CopyPreset ==
    << [symbol |-> "VTI", weight |-> Frac(7, 10), name |-> "Vanguard Total Stock Market"],
       [symbol |-> "VT", weight |-> Frac(3, 10), name |-> "Vanguard Total World Stock"] >>

TotalInvestmentKRW == 10000000

DefaultCopyRate == 1400

\* currentExchangeRate after fetchExchangeRate: the fallback kept, or a quote
CurrentRates == {Num(1400), Num(1250), Num(-1)}

\* data.currentPrice of an item, 0 when the fetch gave nothing
CopyPrices == {Num(0), Num(50), Num(70)}

\* parseFloat(qty.toFixed(4)): ten-thousandths, rounded half up
parseFloatToFixed4(x) == Frac((2 * x.n * 10000 + x.d) \div (2 * x.d), 10000)

\* the quantity copyPortfolio gives an item
copyQuantity(weight, exchangeRate, priceUSD) ==
    LET allocKRW == Mul(Num(TotalInvestmentKRW), weight)
        allocUSD == Div(allocKRW, exchangeRate)
        qty      == Div(allocUSD, priceUSD)
    IN  parseFloatToFixed4(qty)

\* portfolios the cloud file may hold
CloudPortfolios ==
    { EmptyPortfolio, [s \in {"VTI"} |-> Holding("VTI", NameOf("VTI"), Num(3))] }

\* what dbGet resolves to: {} , an object with a portfolio, or one with only
\* indices or stocks
CloudDatas ==
    { [hasPortfolio |-> FALSE, hasOther |-> o, portfolio |-> EmptyPortfolio] : o \in BOOLEAN }
    \cup { [hasPortfolio |-> TRUE, hasOther |-> FALSE, portfolio |-> cp] : cp \in CloudPortfolios }

\* the page as loaded: the portfolio read from localStorage
InitEdit ==
    /\ CoreIdle /\ FetchIdle /\ RaceIdle /\ RecIdle /\ SaveIdle
    /\ stored \in {NotStored} \cup { stringify(pf) : pf \in SavedPortfolios }
    /\ portfolio = loadPortfolio(stored)
    /\ lastEdit = NoEdit
    /\ copyPc = CopyIdle
    /\ syncPc = "idle"

nonEditVars == <<coreVars, fetchVars, raceVars, recVars>>

\* addToPortfolio(data): a held symbol alerts; otherwise the holding is created
\* with quantity 1 and the portfolio saved
AddToPortfolio(symbol) ==
    /\ lastEdit.n < MaxEdits
    /\ lastEdit' = [op |-> "add", symbol |-> symbol, value |-> "", n |-> lastEdit.n + 1]
    /\ IF symbol \in DOMAIN portfolio
       THEN UNCHANGED <<portfolio, stored>>
       ELSE /\ portfolio' = PortfolioPut(portfolio, symbol, Holding(symbol, NameOf(symbol), Num(1)))
            /\ stored' = savePortfolio(portfolio')
    /\ UNCHANGED <<copyPc, syncPc, nonEditVars, saveVars>>

\* removeFromPortfolio(symbol): a held symbol is deleted and the portfolio saved;
\* otherwise an alert
RemoveFromPortfolio(symbol) ==
    /\ lastEdit.n < MaxEdits
    /\ lastEdit' = [op |-> "remove", symbol |-> symbol, value |-> "", n |-> lastEdit.n + 1]
    /\ IF symbol \in DOMAIN portfolio
       THEN /\ portfolio' = PortfolioDelete(portfolio, symbol)
            /\ stored' = savePortfolio(portfolio')
       ELSE UNCHANGED <<portfolio, stored>>
    /\ UNCHANGED <<copyPc, syncPc, nonEditVars, saveVars>>

\* a mutation of QtyInput: the value is not tested against 0
QtyInputUnchecked(symbol, text) ==
    /\ lastEdit.n < MaxEdits
    /\ lastEdit' = [op |-> "quantity", symbol |-> symbol, value |-> text, n |-> lastEdit.n + 1]
    /\ LET val == parseFloat(text)
       IN  IF symbol \in DOMAIN portfolio
           THEN /\ portfolio' = [portfolio EXCEPT ![symbol].quantity = val]
                /\ stored' = savePortfolio(portfolio')
           ELSE UNCHANGED <<portfolio, stored>>
    /\ UNCHANGED <<copyPc, syncPc, nonEditVars, saveVars>>

\* the input listener of a quantity field (of a row that may be stale)
QtyInput(symbol, text) ==
    /\ lastEdit.n < MaxEdits
    /\ lastEdit' = [op |-> "quantity", symbol |-> symbol, value |-> text, n |-> lastEdit.n + 1]
    /\ LET val == parseFloat(text)
       IN  IF Le(Num(0), val) /\ symbol \in DOMAIN portfolio
           THEN /\ portfolio' = [portfolio EXCEPT ![symbol].quantity = val]
                /\ stored' = savePortfolio(portfolio')
           ELSE UNCHANGED <<portfolio, stored>>
    /\ UNCHANGED <<copyPc, syncPc, nonEditVars, saveVars>>

\* copyPortfolio(pfId), confirmed: the portfolio is cleared and the rate fetched
CopyPortfolio ==
    /\ lastEdit.n < MaxEdits
    /\ copyPc.st = "idle"
    /\ lastEdit' = [op |-> "copy", symbol |-> "us7_world3", value |-> "", n |-> lastEdit.n + 1]
    /\ portfolio' = EmptyPortfolio
    /\ copyPc' = [st |-> "fx", i |-> 0, exchangeRate |-> Num(0)]
    /\ UNCHANGED <<stored, syncPc, nonEditVars, saveVars>>

\* await fetchExchangeRate() resolves
CopyExchangeFetched ==
    /\ copyPc.st = "fx"
    /\ \E currentExchangeRate \in CurrentRates :
        copyPc' = [st |-> "items", i |-> 1,
                   exchangeRate |-> IF Gt(currentExchangeRate, Num(0))
                                    THEN currentExchangeRate ELSE Num(DefaultCopyRate)]
    /\ UNCHANGED <<portfolio, stored, lastEdit, syncPc, nonEditVars, saveVars>>

\* await fetchStockData(item.symbol) resolves: a priced item is entered; after
\* the last item the portfolio is saved
CopyItemFetched ==
    /\ copyPc.st = "items"
    /\ \E priceUSD \in CopyPrices :
        LET item == CopyPreset[copyPc.i]
        IN  portfolio' =
                IF Gt(priceUSD, Num(0))
                THEN PortfolioPut(portfolio, item.symbol,
                         Holding(item.symbol, item.name,
                                 copyQuantity(item.weight, copyPc.exchangeRate, priceUSD)))
                ELSE portfolio
    /\ IF copyPc.i = Len(CopyPreset)
       THEN /\ stored' = savePortfolio(portfolio')
            /\ copyPc' = CopyIdle
       ELSE /\ copyPc' = [copyPc EXCEPT !.i = @ + 1]
            /\ UNCHANGED stored
    /\ UNCHANGED <<lastEdit, syncPc, nonEditVars, saveVars>>

\* the token callback: the token is kept and syncDataFromDrive started
Login ==
    /\ lastEdit.n < MaxEdits
    /\ syncPc = "idle"
    /\ lastEdit' = [op |-> "sync", symbol |-> "", value |-> "", n |-> lastEdit.n + 1]
    /\ accessToken' = <<"token">>
    /\ syncPc' = "init"
    /\ UNCHANGED <<portfolio, stored, copyPc, nonEditVars, saveTimeout, timers, timerCount,
                   saveCalls, dbSetLog>>

\* await dbInit() resolves, or throws (catch: alert)
SyncInitDone ==
    /\ syncPc = "init"
    /\ \E ok \in BOOLEAN : syncPc' = IF ok THEN "get" ELSE "idle"
    /\ UNCHANGED <<portfolio, stored, lastEdit, copyPc, nonEditVars, saveVars>>

\* await dbGet() resolves: cloud data replace the portfolio in memory; without
\* cloud data the local portfolio is sent with dbSet; or dbGet throws
SyncGetDone ==
    /\ syncPc = "get"
    /\ \/ \E cloudData \in CloudDatas :
           IF cloudData.hasPortfolio \/ cloudData.hasOther
           THEN /\ portfolio' = IF cloudData.hasPortfolio THEN cloudData.portfolio
                                 ELSE EmptyPortfolio
                /\ syncPc' = "idle"
                /\ UNCHANGED dbSetLog
           ELSE /\ dbSetLog' = Append(dbSetLog, [by |-> "sync", timer |-> 0,
                                                 body |-> stringify(portfolio)])
                /\ syncPc' = "set"
                /\ UNCHANGED portfolio
       \/ /\ syncPc' = "idle"
          /\ UNCHANGED <<portfolio, dbSetLog>>
    /\ UNCHANGED <<stored, lastEdit, copyPc, nonEditVars, accessToken, saveTimeout, timers,
                   timerCount, saveCalls>>

\* await dbSet(cloudCache) of the sync resolves or throws
SyncSetDone ==
    /\ syncPc = "set"
    /\ syncPc' = "idle"
    /\ UNCHANGED <<portfolio, stored, lastEdit, copyPc, nonEditVars, saveVars>>

NextEdit ==
    \/ \E symbol \in EditSymbols : AddToPortfolio(symbol)
    \/ \E symbol \in EditSymbols : RemoveFromPortfolio(symbol)
    \/ \E symbol \in EditSymbols : \E text \in QtyTexts : QtyInput(symbol, text)
    \/ CopyPortfolio
    \/ CopyExchangeFetched
    \/ CopyItemFetched
    \/ Login
    \/ SyncInitDone
    \/ SyncGetDone
    \/ SyncSetDone

SpecEdit == InitEdit /\ [][NextEdit]_vars

---------------------------------------------------------------------------
(* saveToDrive() and its debounce timer *)

\* number of saveToDrive calls explored
MaxSaveCalls == 3

InitSave == CoreIdle /\ AppIdle

\* a mutation of SaveToDrive: the timer of the call before is not cleared
SaveToDriveWithoutClear ==
    /\ saveCalls < MaxSaveCalls
    /\ saveCalls' = saveCalls + 1
    /\ IF accessToken = Null
       THEN UNCHANGED <<saveTimeout, timers, timerCount>>
       ELSE /\ timerCount' = timerCount + 1
            /\ timers' = timers \cup {timerCount + 1}
            /\ saveTimeout' = timerCount + 1
    /\ UNCHANGED <<accessToken, dbSetLog, editVars, nonEditVars>>

\* a call: nothing without a token; otherwise the timer kept in saveTimeout is
\* cleared and a new one set
SaveToDrive ==
    /\ saveCalls < MaxSaveCalls
    /\ saveCalls' = saveCalls + 1
    /\ IF accessToken = Null
       THEN UNCHANGED <<saveTimeout, timers, timerCount>>
       ELSE /\ timerCount' = timerCount + 1
            /\ timers' = (IF saveTimeout # 0 THEN timers \ {saveTimeout} ELSE timers)
                             \cup {timerCount + 1}
            /\ saveTimeout' = timerCount + 1
    /\ UNCHANGED <<accessToken, dbSetLog, editVars, nonEditVars>>

\* the timer fires: cloudCache.portfolio = portfolio, and dbSet(cloudCache) sends
\* the JSON text of it
SaveTimerFires(id) ==
    /\ id \in timers
    /\ timers' = timers \ {id}
    /\ dbSetLog' = Append(dbSetLog, [by |-> "timer", timer |-> id, body |-> stringify(portfolio)])
    /\ UNCHANGED <<accessToken, saveTimeout, timerCount, saveCalls, editVars, nonEditVars>>

NextSave ==
    \/ Login
    \/ SyncInitDone
    \/ SyncGetDone
    \/ SyncSetDone
    \/ \E symbol \in EditSymbols : AddToPortfolio(symbol)
    \/ SaveToDrive
    \/ \E id \in timers : SaveTimerFires(id)

\* a timer that is set and not cleared fires (after 2000 ms)
SpecSave == InitSave /\ [][NextSave]_vars /\ WF_vars(\E id \in timers : SaveTimerFires(id))

---------------------------------------------------------------------------
(* renderRecommendations() *)

\* number of renderRecommendations calls explored
MaxPasses == 3

\* recommendedPortfolios.length
NumPresets == 18

InitRec == CoreIdle /\ AppIdle

\* the card of the preset is in the grid, the pass ends; finally: the loading
\* notice of the pass is removed and the flag reset
RecFinally ==
    /\ grid' = [cards |-> grid.cards + 1, tempLoading |-> 0]
    /\ isRecommendLoading' = FALSE

\* a call: it returns at once after a successful pass or during a pass; otherwise
\* the flag is set, the grid emptied, the loading notice appended and the metrics
\* of the first preset awaited
RenderRecommendations ==
    /\ Len(passes) < MaxPasses
    /\ IF recommendationsRendered \/ isRecommendLoading
       THEN /\ passes' = Append(passes, [st |-> "returned", cards |-> 0])
            /\ UNCHANGED <<isRecommendLoading, grid>>
       ELSE /\ passes' = Append(passes, [st |-> "running", cards |-> 0])
            /\ isRecommendLoading' = TRUE
            /\ grid' = [cards |-> 0, tempLoading |-> 1]
    /\ UNCHANGED <<recommendationsRendered, coreVars, fetchVars, raceVars, editVars, saveVars>>

\* a mutation of RecMetricsResolved: the flag is reset at the end of the try block
\* only, not in a finally
RecMetricsResolvedResetInTry(p) ==
    /\ passes[p].st = "running"
    /\ \E chartThrows \in BOOLEAN :
        IF chartThrows
        THEN /\ passes' = [passes EXCEPT ![p].st = "failed", ![p].cards = @ + 1]
             /\ grid' = [cards |-> grid.cards + 1, tempLoading |-> 0]
             /\ UNCHANGED <<recommendationsRendered, isRecommendLoading>>
        ELSE IF passes[p].cards + 1 = NumPresets
        THEN /\ passes' = [passes EXCEPT ![p].st = "succeeded", ![p].cards = @ + 1]
             /\ recommendationsRendered' = TRUE
             /\ RecFinally
        ELSE /\ passes' = [passes EXCEPT ![p].cards = @ + 1]
             /\ grid' = [grid EXCEPT !.cards = @ + 1]
             /\ UNCHANGED <<recommendationsRendered, isRecommendLoading>>
    /\ UNCHANGED <<coreVars, fetchVars, raceVars, editVars, saveVars>>

\* await calcPortfolioMetrics(pf.items) of pass p resolves: the card is appended
\* and its chart created; creating the chart may throw (catch, finally); after the
\* last preset the pass has succeeded (finally)
RecMetricsResolved(p) ==
    /\ passes[p].st = "running"
    /\ \E chartThrows \in BOOLEAN :
        IF chartThrows
        THEN /\ passes' = [passes EXCEPT ![p].st = "failed", ![p].cards = @ + 1]
             /\ RecFinally
             /\ UNCHANGED recommendationsRendered
        ELSE IF passes[p].cards + 1 = NumPresets
        THEN /\ passes' = [passes EXCEPT ![p].st = "succeeded", ![p].cards = @ + 1]
             /\ recommendationsRendered' = TRUE
             /\ RecFinally
        ELSE /\ passes' = [passes EXCEPT ![p].cards = @ + 1]
             /\ grid' = [grid EXCEPT !.cards = @ + 1]
             /\ UNCHANGED <<recommendationsRendered, isRecommendLoading>>
    /\ UNCHANGED <<coreVars, fetchVars, raceVars, editVars, saveVars>>

NextRec ==
    \/ RenderRecommendations
    \/ \E p \in DOMAIN passes : RecMetricsResolved(p)

SpecRec == InitRec /\ [][NextRec]_vars

---------------------------------------------------------------------------
(* C21, C22: the analytics functions and the series they are given *)

\* a fetched series, or the holdings list, differs after the step
FetchedSeriesChanged ==
    \/ exchangeDataRaw # Pending /\ exchangeDataRaw' # exchangeDataRaw
    \/ \E i \in DOMAIN stockResultsRaw :
           stockResultsRaw[i] # Pending /\ stockResultsRaw' [i] # stockResultsRaw[i]
    \/ \E i \in DOMAIN results :
           /\ results[i] # Pending
           /\ calcPc # "loop"          \* the next range fetches series of its own
           /\ results'[i] # results[i]

HoldingsChanged == items' # items \/ calcItems' # calcItems

\* C21: analyzePortfolio and calcPortfolioMetrics leave their inputs unchanged: a
\* fetched series (timestamps and closes) and the holdings are the same after every
\* step of an analysis as before it.
C21_InputsUnchanged == [][~FetchedSeriesChanged /\ ~HoldingsChanged]_vars

\* C21 witness: a probe has cut its fetched series to a common start and valued
\* them, and at least one series lost observations in the cut
C21_Witness ==
    /\ calcPc = "returned"
    /\ metrics # NotAvailable
    /\ \E i \in DOMAIN results :
           Len(processedData[i].times) < Len(results[i].timestamp)

\* a step that leaves the await of the fetches of analyzePortfolio
LeavesStockAwait == pc = "awaitStocks" /\ pc' # "awaitStocks"

\* a step that leaves the await of the fetches of one range of the prober
LeavesCalcAwait == calcPc = "await" /\ calcPc' # "await"

\* C22: alignment and valuation never start on a partial input set: the FX fetch
\* has completed before any holding fetch is started, the FX fetch and every
\* holding fetch have completed when analyzePortfolio goes on to build the axis,
\* and every asset fetch of the current range has completed when
\* calcPortfolioMetrics goes on to its validity checks, whatever the order in which
\* the fetches complete.
C22_NoPartialInput ==
    /\ [](exchangeDataRaw = Pending => stockResultsRaw = <<>> /\ sortedDates = <<>>)
    /\ []((\E i \in DOMAIN stockResultsRaw : stockResultsRaw[i] = Pending) =>
              sortedDates = <<>> /\ dateToStocks = <<>> /\ portfolioValues = <<>>)
    /\ []((\E i \in DOMAIN results : results[i] = Pending) =>
              processedData = <<>> /\ calcValues = <<>>)
    /\ [][LeavesStockAwait =>
              /\ exchangeDataRaw # Pending
              /\ \A i \in DOMAIN stockResultsRaw : stockResultsRaw[i] # Pending]_vars
    /\ [][LeavesCalcAwait => \A i \in DOMAIN results : results[i] # Pending]_vars

\* C22 witness: two holdings were fetched, both fetches delivered a series, and the axis
\* is built from both
C22_Witness ==
    /\ pc = "valuate"
    /\ Len(stockResultsRaw) = 2
    /\ \A i \in DOMAIN stockResultsRaw : stockResultsRaw[i].st = "ok"
    /\ Len(sortedDates) > 0

---------------------------------------------------------------------------
(* C23, C24: the fetch cache *)

\* attempt p is in flight or has completed with a result
Live(p) == promises[p].st \in {"pending", "result"}

\* the step is a fetchYahooData call, for the key of the last callLog entry
IsCall == Len(callLog') = Len(callLog) + 1

\* C23: fetchYahooData deduplicates: while an attempt for a key is in flight or has
\* completed with a result, it is the promise stored under its key, no second
\* attempt for that key exists, and every further call for the key returns that
\* promise and issues no network request.
C23_Deduplicates ==
    /\ [](\A p \in DOMAIN promises : Live(p) => apiCache[promises[p].key] = p)
    /\ [][\A p \in DOMAIN promises :
            (Live(p) /\ IsCall /\ callLog'[Len(callLog')].key = promises[p].key) =>
                /\ callLog'[Len(callLog')].promise = p
                /\ requests' = requests
                /\ promises' = promises]_vars

\* C23 witness: a call was answered from the cache while its attempt was in flight,
\* and another after the attempt had completed with a result
C23_Witness ==
    \E i, j \in DOMAIN callLog :
        /\ i < j
        /\ ~callLog[i].fresh /\ ~callLog[j].fresh
        /\ callLog[i].promise = callLog[j].promise
        /\ promises[callLog[j].promise].st = "result"
        /\ requests[callLog[j].key] = 1

\* attempt p resolves to null on this step
ResolvesToNull(p) == promises[p].st = "pending" /\ promises'[p].st = "null"

\* C24: when every proxy has failed the attempt resolves to null and no entry is
\* left under its key, so that the next call for the key issues a new request; an
\* entry is removed only by the failure of the attempt it holds, never replaced,
\* and an attempt that has failed is never the one stored.
C24_FailureLeavesNoEntry ==
    /\ [](\A p \in DOMAIN promises : promises[p].st = "null" => apiCache[promises[p].key] # p)
    /\ [][\A p \in DOMAIN promises : ResolvesToNull(p) =>
              /\ promises[p].proxy = NumProxies
              /\ apiCache'[promises[p].key] = 0]_vars
    /\ [][\A k \in CacheKeys :
              /\ (apiCache[k] # 0 /\ apiCache'[k] # apiCache[k]) =>
                    apiCache'[k] = 0 /\ ResolvesToNull(apiCache[k])
              /\ (apiCache[k] = 0 /\ IsCall /\ callLog'[Len(callLog')].key = k) =>
                    /\ requests'[k] = requests[k] + 1
                    /\ callLog'[Len(callLog')].fresh
                    /\ apiCache'[k] = Len(promises')]_vars

\* C24 witness: an attempt failed on every proxy, the next call for its key started
\* a second attempt, which holds the entry
C24_Witness ==
    \E p, q \in DOMAIN promises :
        /\ p < q
        /\ promises[p].key = promises[q].key
        /\ promises[p].st = "null"
        /\ apiCache[promises[q].key] = q
        /\ requests[promises[p].key] > NumProxies

---------------------------------------------------------------------------
(* C25: overlapping analyses *)

\* every call started has finished, and rendered its results
AllRendered == \A c \in DOMAIN calls : calls[c].pc = "done" /\ calls[c].outcome = "rendered"

\* the range the three parts of the panel show, if they all show it
PanelShows(r) == shown.stats = r /\ shown.composition = r /\ shown.chart = r

\* C25: when analyzePortfolio is started for one range and again for another
\* before the first has finished, then once both have finished (and rendered) the
\* statistics, the composition charts and the value chart are those of the range
\* requested last, in whatever order the fetches completed.
C25_LastRequestedRangeShown ==
    (Len(calls) >= 2 /\ AllRendered) => PanelShows(calls[Len(calls)].range)

\* the panel never mixes two analyses: once every call has rendered, its three
\* parts show the range of one and the same call
PanelShowsOneAnalysis ==
    (Len(calls) >= 1 /\ AllRendered) => \E c \in DOMAIN calls : PanelShows(calls[c].range)

---------------------------------------------------------------------------
(* C26, C30: the portfolio and its persisted copy *)

\* copyPortfolio and syncDataFromDrive are not in progress
EditsCompleted == copyPc.st = "idle" /\ syncPc = "idle"

\* C26: after any completed sequence of addToPortfolio, removeFromPortfolio,
\* quantity edits, copyPortfolio and syncDataFromDrive, the portfolio read back
\* from localStorage 'myPortfolio' equals the portfolio in memory.
C26_StoredEqualsMemory == EditsCompleted => loadPortfolio(stored) = portfolio

\* without syncDataFromDrive the two agree whenever no copy is in progress
StoredEqualsMemoryUntilSync ==
    (copyPc.st = "idle" /\ accessToken = Null) => loadPortfolio(stored) = portfolio

\* the step invokes a portfolio operation: lastEdit' names it
IsEdit == lastEdit' # lastEdit

\* a quantity entry that is negative or not a number
NegativeOrUnparseable(text) == text \in {"", "-1"}

\* the operation e must be rejected on the portfolio pf
Rejected(e, pf) ==
    \/ e.op = "add" /\ e.symbol \in DOMAIN pf
    \/ e.op = "remove" /\ e.symbol \notin DOMAIN pf
    \/ e.op = "quantity" /\ NegativeOrUnparseable(e.value)

\* C30: rejected edits change nothing: addToPortfolio for a held symbol,
\* removeFromPortfolio for a symbol not held and a quantity edit with a negative or
\* unparseable value leave the portfolio in memory and the persisted copy as they
\* were; a successful addToPortfolio adds exactly one holding, with quantity 1, and
\* leaves every other holding as it was.
C30_RejectedEditsChangeNothing ==
    [][IsEdit =>
        /\ Rejected(lastEdit', portfolio) => (portfolio' = portfolio /\ stored' = stored)
        /\ (lastEdit'.op = "add" /\ lastEdit'.symbol \notin DOMAIN portfolio) =>
               /\ DOMAIN portfolio' = (DOMAIN portfolio) \cup {lastEdit'.symbol}
               /\ portfolio'[lastEdit'.symbol].quantity = Num(1)
               /\ \A s \in DOMAIN portfolio : portfolio'[s] = portfolio[s]
               /\ loadPortfolio(stored') = portfolio']_vars

\* C30 witness: a negative quantity was entered for a held symbol after a
\* successful add, and the holding still has quantity 1
C30_Witness ==
    /\ lastEdit.op = "quantity"
    /\ lastEdit.value = "-1"
    /\ lastEdit.symbol \in DOMAIN portfolio
    /\ portfolio[lastEdit.symbol].quantity = Num(1)
    /\ loadPortfolio(stored) = portfolio

---------------------------------------------------------------------------
(* C27: renderRecommendations is guarded against re-entry *)

\* the passes in progress
Running == { p \in DOMAIN passes : passes[p].st = "running" }

\* the step is a renderRecommendations call
IsRenderCall == Len(passes') = Len(passes) + 1

\* C27: at most one rendering pass is in progress; a call made while a pass runs
\* or after a pass has succeeded returns without touching the grid;
\* isRecommendLoading is set exactly while a pass is in progress, so it is reset
\* when the pass ends by success or by failure, and after a failed pass a call
\* starts a new pass.
C27_GuardedAgainstReentry ==
    /\ [](Cardinality(Running) <= 1)
    /\ [](isRecommendLoading <=> Running # {})
    /\ [](recommendationsRendered <=> \E p \in DOMAIN passes : passes[p].st = "succeeded")
    /\ [][IsRenderCall =>
            IF Running # {} \/ \E p \in DOMAIN passes : passes[p].st = "succeeded"
            THEN /\ passes'[Len(passes')].st = "returned"
                 /\ grid' = grid
                 /\ isRecommendLoading' = isRecommendLoading
            ELSE passes'[Len(passes')].st = "running"]_vars

\* C27 witness: a pass failed part-way, a second pass was started and succeeded,
\* and a third call returned at once
C27_Witness ==
    /\ Len(passes) = 3
    /\ passes[1].st = "failed"
    /\ passes[2].st = "succeeded"
    /\ passes[3].st = "returned"
    /\ ~isRecommendLoading
    /\ grid = [cards |-> NumPresets, tempLoading |-> 0]

---------------------------------------------------------------------------
(* C28: the debounced save *)

\* the dbSet calls issued by save timers
TimerWrites == { i \in DOMAIN dbSetLog : dbSetLog[i].by = "timer" }

\* the bursts of saveToDrive calls so far: those ended by their dbSet, and the one
\* whose timer is pending
Bursts == Cardinality(TimerWrites) + Cardinality(timers)

\* the step is a saveToDrive call
IsSaveCall == saveCalls' = saveCalls + 1

\* the step is a save timer firing
IsTimerWrite == Len(dbSetLog') = Len(dbSetLog) + 1 /\ dbSetLog'[Len(dbSetLog')].by = "timer"

\* C28: saveToDrive neither sets a timer nor issues dbSet while accessToken is
\* null; at most one save timer is pending at any time; a call made while a timer
\* is pending belongs to the same burst, and a burst ends with exactly one dbSet:
\* the one of the timer set by the last call so far, carrying the portfolio as it
\* is when the timer fires; a pending timer does fire or is replaced.
C28_DebouncedSave ==
    /\ [](accessToken = Null => (timers = {} /\ TimerWrites = {}))
    /\ [][(IsSaveCall /\ accessToken = Null) =>
              (timers' = timers /\ dbSetLog' = dbSetLog /\ saveTimeout' = saveTimeout)]_vars
    /\ [](Cardinality(timers) <= 1)
    /\ [][(IsSaveCall /\ accessToken # Null) =>
              /\ Cardinality(timers') = 1
              /\ Bursts' = Bursts + (IF timers = {} THEN 1 ELSE 0)
              /\ dbSetLog' = dbSetLog]_vars
    /\ [][IsTimerWrite =>
              /\ dbSetLog'[Len(dbSetLog')].timer = timerCount
              /\ loadPortfolio(dbSetLog'[Len(dbSetLog')].body) = portfolio
              /\ timers' = {}
              /\ Bursts' = Bursts]_vars
    /\ (timers # {}) ~> (timers = {})

\* C28 witness: a call without a token, then after login a burst of two calls while
\* the portfolio was changed; one dbSet was issued, by the timer of the second
\* call, with the portfolio of that moment
C28_Witness ==
    /\ saveCalls = 3
    /\ timerCount = 2
    /\ timers = {}
    /\ Cardinality(TimerWrites) = 1
    /\ \E i \in TimerWrites :
           /\ dbSetLog[i].timer = 2
           /\ DOMAIN dbSetLog[i].body.json # {}
=============================================================================
